---- MODULE Spec2Model ----
(***************************************************************************)
(* State-machine model of the quantify_proteins package:                   *)
(*   - CoWinner.merge / _merge_to_base   (cowinner.py)                     *)
(*   - CoWinner.evaluate / validate      (cowinner.py, quantify_config.py) *)
(*   - get_fdr_name / read_fdr_value     (fdr.py)                          *)
(*   - Quantifier._process_peptide_summary (quantitation.py)               *)
(*   - the normalization factor          (quantitation.py)                 *)
(*   - Quantifier.quantify and its pool  (quantitation.py)                 *)
(*   - split_to_set and the sorted join  (utilities.py, cowinner.py)       *)
(*   - Quantifier._generate_fdr_df       (quantitation.py)                 *)
(*   - reduce_df / join_top_accessions   (cowinner.py)                     *)
(*   - replace_accessions, the group run (quantitation.py)                 *)
(*   - Quantifier._add_protein_names     (quantitation.py)                 *)
(*   - the stages of one run             (quantitation.py)                 *)
(* Every component has its own specification (SpecMerge, SpecCfg, SpecFdr, *)
(* SpecQuant, SpecNorm, SpecPool, SpecStr, SpecTab, SpecRed, SpecGrp,      *)
(* SpecNm, SpecStg); the variables of the other components stay idle.      *)
(***************************************************************************)
EXTENDS Integers, Sequences, FiniteSets, TLC

VARIABLES
    \* ---- CoWinner.merge ----
    dir,             \* the reduced files in the cowinner output directory: name -> rows
    cowinner_files,  \* the sorted list of file names (cowinner.py:88-91)
    base_df,         \* the running base table
    cw,              \* index of the next file of cowinner_files[1:] to merge
    base_accs,       \* list(base_df.Accession) during the backward sweep
    snap,            \* the list materialised by reversed_enumerate(base_accs)
    keep,            \* keep flags of the sweep
    ii,              \* outer sweep index (1-based; 0 when the sweep is over)
    absorbed,        \* ghost: per base row, the input rows merged into it
    merged,          \* the table written to merged.csv
    prev_merged,     \* the table written by the previous run of merge
    runs,            \* number of runs of merge started
    mpc,             \* position inside CoWinner.merge
    \* ---- fdr.py ----
    fdr_in,          \* arguments of the call in progress
    fdr_out,         \* outcome of the call: returned value or raised error
    book_opened,     \* the FDR workbook has been opened
    cells_read,      \* cells of "Protein Level Summary" that were read
    fpc,             \* position inside get_fdr_name / read_fdr_value
    \* ---- CoWinner.evaluate / QuantifyConfig.validate ----
    config,          \* the configuration dictionary held by QuantifyConfig
    out_dir,         \* the cowinner output directory exists
    workers_started, \* the multiprocessing pool has been created
    fs_ops,          \* filesystem operations performed by evaluate
    tasks,           \* per configured file: pending, ok or the error raised
    eval_out,        \* outcome of CoWinner.evaluate
    val_out,         \* outcome of CoWinner.validate_config
    epc,             \* position inside CoWinner.evaluate
    \* ---- Quantifier._process_peptide_summary ----
    q_ratio,         \* self._ratio
    q_table,         \* the PeptideSummary table as read by read_tsv
    q_max_n,         \* n_passed_fdr
    summary_df,      \* the filtered PeptideSummary table
    peptide_df,      \* the peptide table
    q_out,           \* outcome of the run
    q_written,       \* output artifacts written by the run
    qpc              \* position inside _process_peptide_summary

VARIABLES
    \* ---- Quantifier._update_protein_df / _finalize_peptide_df ----
    n_protein,       \* the protein table: exp(weighted average) and normalized ratio per row
    n_peptide,       \* the peptide table: raw ratio and normalized ratio per row
    median_exp_avg,  \* the factor returned by _update_protein_df
    wx_norm_factor,  \* the factor received by _finalize_peptide_df
    n_medians,       \* number of evaluations of np.median in the run
    npc              \* position inside the run (quantitation.py:249-253)

VARIABLES
    \* ---- Quantifier.quantify ----
    p_files,         \* the configured PeptideSummary files
    p_ratios,        \* the configured quantitation ratios
    p_next,          \* index of the next chunk of units to hand to a worker
    p_running,       \* the chunks being run by worker processes
    p_status,        \* per unit: pending, ok or the error it raised
    p_seen,          \* per unit: the value of self._ratio its stages read
    p_written,       \* the (output file, unit) pairs written
    p_first,         \* the first failure stored by the map result
    p_out,           \* outcome of Quantifier.quantify
    p_self_ratio,    \* self._ratio of the Quantifier in the calling process
    ppc              \* position inside Quantifier.quantify

VARIABLES
    \* ---- split_to_set and the join of CoWinner.merge, on strings of characters ----
    s_in,            \* the Accession string
    s_set,           \* the set split_to_set makes of it
    s_out,           \* the string joined from the set
    s_again,         \* the string after a second split and join
    s_other,         \* another string with the same tokens, and what split and join make of it
    spc              \* position of the round trip

VARIABLES
    \* ---- Quantifier._generate_fdr_df ----
    t_peptide,       \* the peptide table: Accessions and 1/%Err per row
    t_res,           \* the grouped sums computed by _apply_col_merge
    fdr_df,          \* the FDR table
    t_protein,       \* the protein table
    t_min_option,    \* the option MinimumNumberOfSpectra of the configuration
    tpc              \* position inside _generate_fdr_df

VARIABLES
    \* ---- reduce_df ----
    r_in,            \* the ProteinSummary table handed to reduce_df, rows with their index label
    r_df,            \* the local df of reduce_df
    r_max_n,         \* the number of identifications passing local FDR
    r_dedup,         \* dedup_df
    r_out,           \* result of reduce_df
    rpc              \* position inside reduce_df

VARIABLES
    \* ---- Quantifier._process_ratio_quant_files ----
    g_pooled,        \* the pooled peptide rows of the per-file results, in the order of the configured files
    g_clusters,      \* cowinner_df, the Accession strings of merged.csv as lists of tokens
    g_peptide,       \* peptide_df
    g_fdr,           \* fdr_df
    gpc              \* position inside _process_ratio_quant_files

VARIABLES
    \* ---- Quantifier._add_protein_names ----
    n_map,           \* accession_names_map, the items of the dict in their order
    n_cell,          \* a cell of the Accessions column before the call
    n_accessions,    \* the cell of the Accessions column
    n_names,         \* the cell of the Names column
    nmpc             \* position inside _add_protein_names

VARIABLES
    \* ---- Quantifier._process_peptide_summary, stage by stage ----
    st_ratio,        \* self._ratio
    st_summary_cols, \* the columns of the PeptideSummary table
    st_fdr_ok,       \* read_fdr_value returns for the FDR companion of the file
    st_peptide_cols, \* the columns of peptide_df
    st_fdr_cols,     \* the columns of fdr_df
    st_protein_cols, \* the columns of protein_df
    st_factor,       \* exp_avg_wx_factor has been computed
    st_log,          \* the stages executed so far
    st_written,      \* the output workbook has been written
    stpc             \* the stage to execute next

mergeVars == <<dir, cowinner_files, base_df, cw, base_accs, snap, keep, ii,
               absorbed, merged, prev_merged, runs, mpc>>

fdrVars == <<fdr_in, fdr_out, book_opened, cells_read, fpc>>

cfgVars == <<config, out_dir, workers_started, fs_ops, tasks, eval_out,
             val_out, epc>>

quantVars == <<q_ratio, q_table, q_max_n, summary_df, peptide_df, q_out,
               q_written, qpc>>

normVars == <<n_protein, n_peptide, median_exp_avg, wx_norm_factor, n_medians, npc>>

poolVars == <<p_files, p_ratios, p_next, p_running, p_status, p_seen, p_written, p_first, p_out, p_self_ratio, ppc>>

strVars == <<s_in, s_set, s_out, s_again, s_other, spc>>

tabVars == <<t_peptide, t_res, fdr_df, t_protein, t_min_option, tpc>>

redVars == <<r_in, r_df, r_max_n, r_dedup, r_out, rpc>>

grpVars == <<g_pooled, g_clusters, g_peptide, g_fdr, gpc>>

nmVars == <<n_map, n_cell, n_accessions, n_names, nmpc>>

stgVars == <<st_ratio, st_summary_cols, st_fdr_ok, st_peptide_cols, st_fdr_cols, st_protein_cols, st_factor, st_log, st_written, stpc>>

vars == <<mergeVars, fdrVars, cfgVars, quantVars, normVars, poolVars, strVars, tabVars, redVars, grpVars, nmVars, stgVars>>

-----------------------------------------------------------------------------
(* Bounds *)
MaxFiles == 2
MaxTotalRows == 3
MaxSingleFileRows == 4
MaxRuns == 2

\* Accession identifiers; the order of the integers is the alphabetical order
Accs == {1, 2, 3}

NoTable == <<"none">>

\* outcome of a call
NoCall == [kind |-> "none"]
Returned(v) == [kind |-> "return", value |-> v]
Raised(e) == [kind |-> "raise", error |-> e]

\* the state of a component before any of its operations has been called
InitMergeIdle ==
    /\ cowinner_files = <<>>
    /\ base_df = <<>>
    /\ cw = 0
    /\ base_accs = <<>>
    /\ snap = <<>>
    /\ keep = <<>>
    /\ ii = 0
    /\ absorbed = <<>>
    /\ merged = NoTable
    /\ prev_merged = NoTable
    /\ runs = 1

InitFdrIdle ==
    /\ fdr_in = [op |-> "none"]
    /\ fdr_out = NoCall
    /\ book_opened = FALSE
    /\ cells_read = {}
    /\ fpc = "idle"

InitCfgIdle ==
    /\ config = <<>>
    /\ out_dir = FALSE
    /\ workers_started = FALSE
    /\ fs_ops = {}
    /\ tasks = <<>>
    /\ eval_out = NoCall
    /\ val_out = NoCall
    /\ epc = "off"

InitQuantIdle ==
    /\ q_ratio = "None"
    /\ q_table = NoTable
    /\ q_max_n = 0
    /\ summary_df = NoTable
    /\ peptide_df = NoTable
    /\ q_out = NoCall
    /\ q_written = {}
    /\ qpc = "off"

InitNormIdle ==
    /\ n_protein = <<>>
    /\ n_peptide = <<>>
    /\ median_exp_avg = NoCall
    /\ wx_norm_factor = NoCall
    /\ n_medians = 0
    /\ npc = "off"

InitPoolIdle ==
    /\ p_files = <<>>
    /\ p_ratios = <<>>
    /\ p_next = 0
    /\ p_running = {}
    /\ p_status = <<>>
    /\ p_seen = <<>>
    /\ p_written = {}
    /\ p_first = NoCall
    /\ p_out = NoCall
    /\ p_self_ratio = "None"
    /\ ppc = "off"

InitStrIdle ==
    /\ s_in = <<>>
    /\ s_set = {}
    /\ s_out = <<>>
    /\ s_again = <<>>
    /\ s_other = <<>>
    /\ spc = "off"

InitTabIdle ==
    /\ t_peptide = <<>>
    /\ t_res = <<>>
    /\ fdr_df = <<>>
    /\ t_protein = <<>>
    /\ t_min_option = <<>>
    /\ tpc = "off"

InitRedIdle ==
    /\ r_in = <<>>
    /\ r_df = <<>>
    /\ r_max_n = 0
    /\ r_dedup = <<>>
    /\ r_out = NoCall
    /\ rpc = "off"

InitGrpIdle ==
    /\ g_pooled = <<>>
    /\ g_clusters = <<>>
    /\ g_peptide = <<>>
    /\ g_fdr = <<>>
    /\ gpc = "off"

InitNmIdle ==
    /\ n_map = <<>>
    /\ n_cell = <<>>
    /\ n_accessions = <<>>
    /\ n_names = <<>>
    /\ nmpc = "off"

InitStgIdle ==
    /\ st_ratio = ""
    /\ st_summary_cols = {}
    /\ st_fdr_ok = FALSE
    /\ st_peptide_cols = {}
    /\ st_fdr_cols = {}
    /\ st_protein_cols = {}
    /\ st_factor = FALSE
    /\ st_log = <<>>
    /\ st_written = FALSE
    /\ stpc = "off"

-----------------------------------------------------------------------------
(* Generic helpers *)

Range(s) == {s[i] : i \in DOMAIN s}

Min(S) == CHOOSE x \in S : \A y \in S : x <= y

\* sorted(a): the ascending list of the elements of a set of integers
RECURSIVE sorted(_)
sorted(S) == IF S = {} THEN <<>> ELSE <<Min(S)>> \o sorted(S \ {Min(S)})

\* a sort that leaves the listing as the directory returned it
list_sort_none(s) == s

\* list.sort(): insertion of every element at its place in the sorted prefix
RECURSIVE list_sort(_)
list_sort(s) ==
    IF s = <<>> THEN <<>>
    ELSE LET rest == list_sort(Tail(s))
             x == Head(s)
             lo == SelectSeq(rest, LAMBDA y : y < x)
             hi == SelectSeq(rest, LAMBDA y : ~(y < x))
         IN lo \o <<x>> \o hi

Perms(S) == {p \in [1..Cardinality(S) -> S] : Range(p) = S}

\* name of the i-th file of the directory: 11, 21, 12, 22, ...
FileName(i) == 10 * (2 - (i % 2)) + ((i + 1) \div 2)

\* utilities.get_file_id: the leading characters of the base name
get_file_id(name) == name \div 10

\* utilities.split_to_set for one cell: the set of the tokens of the string
split_to_set(str) == Range(str)

\* "; ".join(sorted(a)): the string as its list of tokens
join_sorted(a) == sorted(a)

-----------------------------------------------------------------------------
(* Inputs of CoWinner.merge: reduced files as written by                    *)
(* _process_protein_summary, one row per N, Accession a sorted join         *)

AccStrings == {sorted(S) : S \in (SUBSET Accs) \ {{}}}

FilesWithRows(r) ==
    {[k \in 1..r |-> [N |-> k, Accession |-> f[k]]] : f \in [1..r -> AccStrings]}

RECURSIVE FileSeqs(_, _)
FileSeqs(k, budget) ==
    IF k = 0 THEN {<<>>}
    ELSE UNION {{Append(fs, f) : fs \in FileSeqs(k - 1, budget - r),
                                 f \in FilesWithRows(r)}
                : r \in 1..(budget - (k - 1))}

\* the directories with k files named FileName(1..k)
DirsOf(fileSeqs) ==
    {[n \in {FileName(i) : i \in 1..Len(fs)} |->
          fs[CHOOSE i \in 1..Len(fs) : FileName(i) = n]] : fs \in fileSeqs}

\* up to maxFiles files with at most maxRows rows in total, and the
\* directories of a single file with up to maxSingle rows
Dirs(maxFiles, maxRows, maxSingle) ==
    DirsOf(UNION {FileSeqs(k, maxRows) : k \in 1..maxFiles})
      \cup DirsOf(FileSeqs(1, maxSingle))

-----------------------------------------------------------------------------
(* cowinner.py *)

\* read_tsv + "Expr Date" + split_to_set (cowinner.py:93-96, 99-101)
read_reduced(d, name) ==
    [k \in DOMAIN d[name] |->
        [ExprDate |-> get_file_id(name), N |-> d[name][k].N,
         Accession |-> split_to_set(d[name][k].Accession)]]

\* the inner loop without the break: the last intersecting target wins
last_match(src, tgt_accs) ==
    IF \E j \in DOMAIN tgt_accs : src \cap tgt_accs[j] # {}
    THEN CHOOSE j \in DOMAIN tgt_accs :
            /\ src \cap tgt_accs[j] # {}
            /\ \A j2 \in DOMAIN tgt_accs : src \cap tgt_accs[j2] # {} => j2 <= j
    ELSE 0

\* index of the first target intersecting src, 0 when there is none
\* (the inner for ... break / else of _merge_to_base)
first_match(src, tgt_accs) ==
    IF \E j \in DOMAIN tgt_accs : src \cap tgt_accs[j] # {}
    THEN Min({j \in DOMAIN tgt_accs : src \cap tgt_accs[j] # {}})
    ELSE 0

\* the loop with the matching base row overwritten instead of unioned
RECURSIVE merge_loop_replace(_, _, _, _, _, _)
merge_loop_replace(i, src_accs, src_ids, tgt_accs, add_row_idxs, ab) ==
    IF i > Len(src_accs) THEN [tgt |-> tgt_accs, add |-> add_row_idxs, ab |-> ab]
    ELSE LET jj == IF \E j \in DOMAIN tgt_accs : src_accs[i] \cap tgt_accs[j] # {}
                   THEN Min({j \in DOMAIN tgt_accs : src_accs[i] \cap tgt_accs[j] # {}})
                   ELSE 0
         IN IF jj # 0
            THEN merge_loop_replace(i + 1, src_accs, src_ids,
                                    [tgt_accs EXCEPT ![jj] = src_accs[i]],
                                    add_row_idxs,
                                    [ab EXCEPT ![jj] = @ \cup {src_ids[i]}])
            ELSE merge_loop_replace(i + 1, src_accs, src_ids, tgt_accs,
                                    Append(add_row_idxs, i), ab)

\* the loop of _merge_to_base over src_accs[i..]: returns the updated
\* tgt_accs, the indices to append and the ghost membership
RECURSIVE merge_loop(_, _, _, _, _, _)
merge_loop(i, src_accs, src_ids, tgt_accs, add_row_idxs, ab) ==
    IF i > Len(src_accs) THEN [tgt |-> tgt_accs, add |-> add_row_idxs, ab |-> ab]
    ELSE LET jj == first_match(src_accs[i], tgt_accs)
         IN IF jj # 0
            THEN merge_loop(i + 1, src_accs, src_ids,
                            [tgt_accs EXCEPT ![jj] = src_accs[i] \cup @],
                            add_row_idxs,
                            [ab EXCEPT ![jj] = @ \cup {src_ids[i]}])
            ELSE merge_loop(i + 1, src_accs, src_ids, tgt_accs,
                            Append(add_row_idxs, i), ab)

\* a matched base row takes the other columns of the last row it absorbed
_merge_to_base_last_seen(source_df, target_df) ==
    LET src_accs == [k \in DOMAIN source_df |-> source_df[k].Accession]
        tgt_accs == [k \in DOMAIN target_df |-> target_df[k].Accession]
        src_ids == [k \in DOMAIN source_df |-> k]
        res == merge_loop(1, src_accs, src_ids, tgt_accs, <<>>,
                          [k \in DOMAIN target_df |-> {}])
        last(k) == CHOOSE i \in res.ab[k] : \A i2 \in res.ab[k] : i2 <= i
        updated == [k \in DOMAIN target_df |->
                       [(IF res.ab[k] = {} THEN target_df[k]
                         ELSE source_df[last(k)])
                          EXCEPT !.Accession = res.tgt[k]]]
    IN updated \o [k \in DOMAIN res.add |-> source_df[res.add[k]]]

\* cowinner.py:129-151
_merge_to_base(source_df, target_df) ==
    LET src_accs == [k \in DOMAIN source_df |-> source_df[k].Accession]
        tgt_accs == [k \in DOMAIN target_df |-> target_df[k].Accession]
        src_ids == [k \in DOMAIN source_df |-> k]
        res == merge_loop(1, src_accs, src_ids, tgt_accs, <<>>,
                          [k \in DOMAIN target_df |-> {}])
        updated == [k \in DOMAIN target_df |->
                       [target_df[k] EXCEPT !.Accession = res.tgt[k]]]
    IN updated \o [k \in DOMAIN res.add |-> source_df[res.add[k]]]

\* ghost companion of _merge_to_base: which rows of the incoming file each
\* base row absorbed, and the rows that were appended
merge_absorbed(name, source_df, target_df, ab) ==
    LET src_accs == [k \in DOMAIN source_df |-> source_df[k].Accession]
        tgt_accs == [k \in DOMAIN target_df |-> target_df[k].Accession]
        src_ids == [k \in DOMAIN source_df |-> <<name, source_df[k].N>>]
        res == merge_loop(1, src_accs, src_ids, tgt_accs, <<>>, ab)
    IN res.ab \o [k \in DOMAIN res.add |-> {src_ids[res.add[k]]}]

\* the inner loop of the sweep for one ii (cowinner.py:110-113): jj runs
\* from ii-1 down to 1 over the current base_accs, accs is the set the
\* enumeration of the outer loop holds for row ii
RECURSIVE sweep_inner(_, _, _, _, _, _)
sweep_inner(jj, accs, row, accsList, keepList, ab) ==
    IF jj < 1 THEN [accs |-> accsList, keep |-> keepList, ab |-> ab]
    ELSE IF accs \cap accsList[jj] # {}
         THEN sweep_inner(jj - 1, accs, row,
                          [accsList EXCEPT ![jj] = accs \cup @],
                          [keepList EXCEPT ![row] = FALSE],
                          [ab EXCEPT ![jj] = @ \cup ab[row]])
         ELSE sweep_inner(jj - 1, accs, row, accsList, keepList, ab)

\* base_df[keep] with the Accession column replaced by base_accs and joined
\* back to strings (cowinner.py:115-120)
RECURSIVE select_rows(_, _, _, _)
select_rows(k, df, accsList, keepList) ==
    IF k > Len(df) THEN <<>>
    ELSE (IF keepList[k]
          THEN <<[df[k] EXCEPT !.Accession = join_sorted(accsList[k])]>>
          ELSE <<>>) \o select_rows(k + 1, df, accsList, keepList)

RECURSIVE select_sets(_, _, _)
select_sets(k, s, keepList) ==
    IF k > Len(s) THEN <<>>
    ELSE (IF keepList[k] THEN <<s[k]>> ELSE <<>>)
         \o select_sets(k + 1, s, keepList)

-----------------------------------------------------------------------------
(* fdr.py *)

\* A path is a list of segments: a marker token or a single other
\* character.  The two markers cannot overlap each other or themselves, so
\* every string has exactly one such decomposition.
Markers == {"ProteinSummary", "PeptideSummary"}
OtherChars == {"a", "_"}
Segments == Markers \cup OtherChars
FDR_SUFFIX == "_FDR.xlsx"

\* bound: number of segments of a path
MaxPathLen == 3

Paths == UNION {[1..n -> Segments] : n \in 0..MaxPathLen}

CharLen(seg) == IF seg \in Markers THEN 14 ELSE 1

RECURSIVE CharLenSeq(_)
CharLenSeq(p) == IF p = <<>> THEN 0 ELSE CharLen(Head(p)) + CharLenSeq(Tail(p))

\* str.find: character offset of the first occurrence, -1 when absent
str_find(p, marker) ==
    IF \E i \in DOMAIN p : p[i] = marker
    THEN CharLenSeq(SubSeq(p, 1, Min({i \in DOMAIN p : p[i] = marker}) - 1))
    ELSE -1

\* p[:idx] for an offset that lies on a segment boundary
str_slice_to(p, idx) ==
    LET n == CHOOSE k \in 0..Len(p) : CharLenSeq(SubSeq(p, 1, k)) = idx
    IN SubSeq(p, 1, n)

\* get_fdr_name looking for PeptideSummary first
get_fdr_name_peptide_first(summary_name) ==
    LET idx1 == str_find(summary_name, "PeptideSummary")
        idx == IF idx1 = -1 THEN str_find(summary_name, "ProteinSummary") ELSE idx1
    IN IF idx = -1 THEN Raised("ValueError")
       ELSE Returned(Append(str_slice_to(summary_name, idx), FDR_SUFFIX))

\* fdr.py:17-38
get_fdr_name(summary_name) ==
    LET idx1 == str_find(summary_name, "ProteinSummary")
        idx == IF idx1 = -1 THEN str_find(summary_name, "PeptideSummary") ELSE idx1
    IN IF idx = -1 THEN Raised("ValueError")
       ELSE Returned(Append(str_slice_to(summary_name, idx), FDR_SUFFIX))

\* fdr.py:10-14
CRITICAL_FDR_CELLS == (1 :> <<5, 2>>) @@ (5 :> <<6, 2>>) @@ (10 :> <<7, 2>>)

\* thresholds a caller may pass
Thresholds == {1, 5, 7, 10}

\* cell values of the sheet in tenths (37 is the number 3.7)
CellValues == {20, 37}
SheetCells == {<<4, 2>>, <<5, 2>>, <<6, 2>>, <<7, 2>>}
Sheets == [SheetCells -> CellValues]

\* int() of a non-negative number given in tenths
int_of(v) == v \div 10

\* ', '.join(keys): str.join accepts only str items
join_keys(keys) ==
    IF \E k \in keys : k \in Int THEN Raised("TypeError") ELSE Returned("joined")

\* fdr.py:44-46: the threshold test; the message of the ValueError is built
\* before the raise, and joining the integer keys of CRITICAL_FDR_CELLS fails
ReadFdrCheck ==
    /\ fpc = "idle"
    /\ \E t \in Thresholds, sh \in Sheets :
          /\ fdr_in' = [op |-> "read_fdr_value", crit_fdr |-> t, sheet |-> sh]
          /\ IF t \notin DOMAIN CRITICAL_FDR_CELLS
             THEN /\ fdr_out' = (IF join_keys(DOMAIN CRITICAL_FDR_CELLS).kind = "raise"
                                 THEN join_keys(DOMAIN CRITICAL_FDR_CELLS)
                                 ELSE Raised("ValueError"))
                  /\ fpc' = "done"
             ELSE /\ fdr_out' = NoCall
                  /\ fpc' = "open"
    /\ UNCHANGED <<book_opened, cells_read>>
    /\ UNCHANGED <<mergeVars, cfgVars, quantVars, normVars, poolVars, strVars, tabVars, redVars, grpVars, nmVars, stgVars>>

\* fdr.py:48-52: open the workbook, read the cell of the threshold
ReadFdrCell ==
    /\ fpc = "open"
    /\ book_opened' = TRUE
    /\ cells_read' = cells_read \cup {CRITICAL_FDR_CELLS[fdr_in.crit_fdr]}
    /\ fdr_out' = Returned(int_of(fdr_in.sheet[CRITICAL_FDR_CELLS[fdr_in.crit_fdr]]))
    /\ fpc' = "done"
    /\ UNCHANGED fdr_in
    /\ UNCHANGED <<mergeVars, cfgVars, quantVars, normVars, poolVars, strVars, tabVars, redVars, grpVars, nmVars, stgVars>>

\* a call of get_fdr_name
GetFdrName ==
    /\ fpc = "idle"
    /\ \E p \in Paths :
          /\ fdr_in' = [op |-> "get_fdr_name", summary_name |-> p]
          /\ fdr_out' = get_fdr_name(p)
    /\ fpc' = "done"
    /\ UNCHANGED <<book_opened, cells_read>>
    /\ UNCHANGED <<mergeVars, cfgVars, quantVars, normVars, poolVars, strVars, tabVars, redVars, grpVars, nmVars, stgVars>>

InitFdr ==
    /\ InitFdrIdle
    /\ dir = <<>>
    /\ mpc = "off"
    /\ InitMergeIdle
    /\ InitCfgIdle
    /\ InitQuantIdle
    /\ InitNormIdle
    /\ InitPoolIdle
    /\ InitStrIdle
    /\ InitTabIdle
    /\ InitRedIdle
    /\ InitGrpIdle
    /\ InitNmIdle
    /\ InitStgIdle

NextFdr ==
    \/ GetFdrName
    \/ ReadFdrCheck
    \/ ReadFdrCell

SpecFdr == InitFdr /\ [][NextFdr]_vars

NameCall == fpc = "done" /\ fdr_in.op = "get_fdr_name"
ReadCall == fdr_in.op = "read_fdr_value"

\* C7: read_fdr_value with a threshold outside {1, 5, 10} fails with the
\* invalid-threshold error (the ValueError of fdr.py:45) before the workbook
\* is opened; with 1, 5 or 10 it reads exactly the cell (5,2), (6,2) or
\* (7,2) and returns it as an integer.
C7_ReadFdrValue ==
    (ReadCall /\ fpc = "done") =>
        IF fdr_in.crit_fdr \notin {1, 5, 10}
        THEN fdr_out = Raised("ValueError") /\ ~book_opened /\ cells_read = {}
        ELSE /\ cells_read = {CASE fdr_in.crit_fdr = 1 -> <<5, 2>>
                                [] fdr_in.crit_fdr = 5 -> <<6, 2>>
                                [] fdr_in.crit_fdr = 10 -> <<7, 2>>}
             /\ \E c \in cells_read :
                   /\ fdr_out.kind = "return"
                   /\ fdr_out.value * 10 <= fdr_in.sheet[c]
                   /\ fdr_in.sheet[c] < (fdr_out.value + 1) * 10

HasMarker(p) == \E i \in DOMAIN p : p[i] \in Markers

\* what the name function has to return for a path with a marker: the
\* segments before the first ProteinSummary, or, when there is none, before
\* the first PeptideSummary, followed by the suffix
ExpectedFdrName(p, out) ==
    LET m == IF \E i \in DOMAIN p : p[i] = "ProteinSummary"
             THEN "ProteinSummary" ELSE "PeptideSummary"
    IN \E i \in DOMAIN p :
          /\ p[i] = m
          /\ \A j \in 1..(i - 1) : p[j] # m
          /\ out = Returned(SubSeq(p, 1, i - 1) \o <<FDR_SUFFIX>>)

\* C8 as stated: get_fdr_name fails with NameError when the path holds
\* neither marker, otherwise returns the part before the first marker found
\* (ProteinSummary first) followed by _FDR.xlsx.
C8_Original ==
    NameCall =>
        IF HasMarker(fdr_in.summary_name)
        THEN ExpectedFdrName(fdr_in.summary_name, fdr_out)
        ELSE fdr_out = Raised("NameError")

\* C8 amended: get_fdr_name fails with ValueError when the path holds
\* neither marker, otherwise returns the part before the first marker found
\* (ProteinSummary first) followed by _FDR.xlsx.
C8_GetFdrName ==
    NameCall =>
        IF HasMarker(fdr_in.summary_name)
        THEN ExpectedFdrName(fdr_in.summary_name, fdr_out)
        ELSE fdr_out = Raised("ValueError")

\* a path with both markers, PeptideSummary first, and a path without any
C8_Witness ==
    /\ NameCall
    /\ fdr_in.summary_name = <<"a", "PeptideSummary", "ProteinSummary">>
    /\ fdr_out = Returned(<<"a", "PeptideSummary", FDR_SUFFIX>>)

C8_WitnessNoMarker ==
    /\ NameCall
    /\ ~HasMarker(fdr_in.summary_name)
    /\ fdr_out = Raised("ValueError")

-----------------------------------------------------------------------------
(* Actions of CoWinner.merge *)

\* cowinner.py:88-91: os.walk returns the files in any order, then sort()
ListFiles ==
    /\ mpc = "list"
    /\ \E listing \in Perms(DOMAIN dir) :
          cowinner_files' = list_sort(listing)
    /\ mpc' = "read_base"
    /\ UNCHANGED <<dir, base_df, cw, base_accs, snap, keep, ii, absorbed,
                   merged, prev_merged, runs>>
    /\ UNCHANGED <<fdrVars, cfgVars, quantVars, normVars, poolVars, strVars, tabVars, redVars, grpVars, nmVars, stgVars>>

\* cowinner.py:93-96
ReadBase ==
    /\ mpc = "read_base"
    /\ base_df' = read_reduced(dir, cowinner_files[1])
    /\ absorbed' = [k \in DOMAIN dir[cowinner_files[1]] |->
                       {<<cowinner_files[1], dir[cowinner_files[1]][k].N>>}]
    /\ cw' = 2
    /\ mpc' = "merge_loop"
    /\ UNCHANGED <<dir, cowinner_files, base_accs, snap, keep, ii, merged,
                   prev_merged, runs>>
    /\ UNCHANGED <<fdrVars, cfgVars, quantVars, normVars, poolVars, strVars, tabVars, redVars, grpVars, nmVars, stgVars>>

\* cowinner.py:98-102: one iteration of the loop over cowinner_files[1:]
MergeFile ==
    /\ mpc = "merge_loop"
    /\ cw <= Len(cowinner_files)
    /\ LET df == read_reduced(dir, cowinner_files[cw])
       IN /\ base_df' = _merge_to_base(df, base_df)
          /\ absorbed' = merge_absorbed(cowinner_files[cw], df, base_df, absorbed)
    /\ cw' = cw + 1
    /\ UNCHANGED <<dir, cowinner_files, base_accs, snap, keep, ii, merged,
                   prev_merged, runs, mpc>>
    /\ UNCHANGED <<fdrVars, cfgVars, quantVars, normVars, poolVars, strVars, tabVars, redVars, grpVars, nmVars, stgVars>>

\* cowinner.py:104-109: base_accs, keep and the enumeration of the outer loop
SweepStart ==
    /\ mpc = "merge_loop"
    /\ cw > Len(cowinner_files)
    /\ base_accs' = [k \in DOMAIN base_df |-> base_df[k].Accession]
    /\ snap' = [k \in DOMAIN base_df |-> base_df[k].Accession]
    /\ keep' = [k \in DOMAIN base_df |-> TRUE]
    /\ ii' = Len(base_df)
    /\ mpc' = "sweep"
    /\ UNCHANGED <<dir, cowinner_files, base_df, cw, absorbed, merged,
                   prev_merged, runs>>
    /\ UNCHANGED <<fdrVars, cfgVars, quantVars, normVars, poolVars, strVars, tabVars, redVars, grpVars, nmVars, stgVars>>

\* cowinner.py:109-113: one iteration of the outer loop
SweepRow ==
    /\ mpc = "sweep"
    /\ ii >= 1
    /\ LET res == sweep_inner(ii - 1, snap[ii], ii, base_accs, keep, absorbed)
       IN /\ base_accs' = res.accs
          /\ keep' = res.keep
          /\ absorbed' = res.ab
    /\ ii' = ii - 1
    /\ UNCHANGED <<dir, cowinner_files, base_df, cw, snap, merged,
                   prev_merged, runs, mpc>>
    /\ UNCHANGED <<fdrVars, cfgVars, quantVars, normVars, poolVars, strVars, tabVars, redVars, grpVars, nmVars, stgVars>>

\* cowinner.py:115-126: drop the marked rows, join the sets, write merged.csv
WriteMerged ==
    /\ mpc = "sweep"
    /\ ii = 0
    /\ merged' = select_rows(1, base_df, base_accs, keep)
    /\ mpc' = "done"
    /\ UNCHANGED <<dir, cowinner_files, base_df, cw, base_accs, snap, keep,
                   ii, absorbed, prev_merged, runs>>
    /\ UNCHANGED <<fdrVars, cfgVars, quantVars, normVars, poolVars, strVars, tabVars, redVars, grpVars, nmVars, stgVars>>

\* a further call of CoWinner.merge on the same directory
Rerun ==
    /\ mpc = "done"
    /\ runs < MaxRuns
    /\ prev_merged' = merged
    /\ runs' = runs + 1
    /\ cowinner_files' = <<>>
    /\ base_df' = <<>>
    /\ cw' = 0
    /\ base_accs' = <<>>
    /\ snap' = <<>>
    /\ keep' = <<>>
    /\ ii' = 0
    /\ absorbed' = <<>>
    /\ merged' = NoTable
    /\ mpc' = "list"
    /\ UNCHANGED dir
    /\ UNCHANGED <<fdrVars, cfgVars, quantVars, normVars, poolVars, strVars, tabVars, redVars, grpVars, nmVars, stgVars>>

InitMerge ==
    /\ dir \in Dirs(MaxFiles, MaxTotalRows, MaxSingleFileRows)
    /\ mpc = "list"
    /\ InitMergeIdle
    /\ InitFdrIdle
    /\ InitCfgIdle
    /\ InitQuantIdle
    /\ InitNormIdle
    /\ InitPoolIdle
    /\ InitStrIdle
    /\ InitTabIdle
    /\ InitRedIdle
    /\ InitGrpIdle
    /\ InitNmIdle
    /\ InitStgIdle

NextMerge ==
    \/ ListFiles
    \/ ReadBase
    \/ MergeFile
    \/ SweepStart
    \/ SweepRow
    \/ WriteMerged
    \/ Rerun

SpecMerge == InitMerge /\ [][NextMerge]_vars

-----------------------------------------------------------------------------
(* Properties of CoWinner.merge *)

AccSetOf(row) == Range(row.Accession)

\* the accession set an input row (file name, N) has in its reduced file
InputAccs(id) ==
    UNION {split_to_set(dir[id[1]][k].Accession) :
             k \in {k2 \in DOMAIN dir[id[1]] : dir[id[1]][k2].N = id[2]}}

AllInputAccs ==
    UNION {UNION {split_to_set(dir[n][k].Accession) : k \in DOMAIN dir[n]} :
             n \in DOMAIN dir}

\* C1: after CoWinner.merge has finished, no two distinct surviving rows of
\* the merged table have accession sets with a common element.
C1_NoOverlapAfterMerge ==
    mpc = "done" =>
        \A i, j \in DOMAIN merged :
            i # j => AccSetOf(merged[i]) \cap AccSetOf(merged[j]) = {}

\* C2: after CoWinner.merge, each surviving cluster's accession set is the
\* union of the accession sets of every input row merged into it (directly
\* or through a removed row), and every accession of every input row occurs
\* in some surviving cluster.
C2_UnionPreserved ==
    mpc = "done" =>
        LET members == select_sets(1, absorbed, keep)
        IN /\ \A i \in DOMAIN merged :
                 AccSetOf(merged[i]) = UNION {InputAccs(id) : id \in members[i]}
           /\ AllInputAccs = UNION {AccSetOf(merged[i]) : i \in DOMAIN merged}

TwoSingleRowFiles ==
    /\ Cardinality(DOMAIN dir) = 2
    /\ \A n \in DOMAIN dir : Len(dir[n]) = 1

\* C3: two files with one reduced row each, whose accession sets intersect,
\* consolidate to exactly one cluster holding the union of the two sets.
C3_TwoFilesOneCluster ==
    (/\ mpc = "done"
     /\ TwoSingleRowFiles
     /\ split_to_set(dir[FileName(1)][1].Accession)
          \cap split_to_set(dir[FileName(2)][1].Accession) # {})
    => /\ Len(merged) = 1
       /\ merged[1].Accession =
            sorted(Range(dir[FileName(1)][1].Accession)
                     \cup Range(dir[FileName(2)][1].Accession))

\* the scenario of the specification: file A {P1,P2}, file B {P2,P3}
C3_Witness ==
    /\ mpc = "done"
    /\ TwoSingleRowFiles
    /\ dir[FileName(1)][1].Accession = <<1, 2>>
    /\ dir[FileName(2)][1].Accession = <<2, 3>>
    /\ merged = <<[ExprDate |-> get_file_id(FileName(1)), N |-> 1,
                   Accession |-> <<1, 2, 3>>]>>

IsAscending(s) == \A i, j \in DOMAIN s : i < j => s[i] < s[j]

\* C4: a second run of CoWinner.merge over the same reduced files writes the
\* same table as the first, whatever order the directory listing had, and
\* the files are processed in ascending name order.
C4_Deterministic ==
    /\ (mpc \notin {"list"} => IsAscending(cowinner_files))
    /\ (mpc = "done" /\ runs >= 2 => merged = prev_merged)

C4_Witness ==
    /\ mpc = "done"
    /\ runs = 2
    /\ Len(cowinner_files) = 2
    /\ Len(merged) >= 2
    /\ merged = prev_merged

\* the accession sets of the rows of a table
AccessionsOf(df) == [k \in DOMAIN df |-> df[k].Accession]

\* the base sets after the incoming rows 1..k: row k is unioned into the
\* first base row that intersects it as the base rows stand after rows
\* 1..k-1, and into no other
RECURSIVE TargetsAfter(_, _, _)
TargetsAfter(k, src, tgt) ==
    IF k = 0 THEN tgt
    ELSE LET prev == TargetsAfter(k - 1, src, tgt)
             hits == {j \in DOMAIN prev : prev[j] \cap src[k] # {}}
         IN  [j \in DOMAIN prev |->
                IF hits # {} /\ j = Min(hits) THEN prev[j] \cup src[k]
                ELSE prev[j]]

\* the incoming rows that intersect no base row when their turn comes
UnmatchedRows(src, tgt) ==
    {k \in DOMAIN src :
        \A j \in DOMAIN tgt : TargetsAfter(k - 1, src, tgt)[j] \cap src[k] = {}}

\* C18: in _merge_to_base each incoming row is unioned into exactly one base
\* row, the first in base order whose current set (with the unions of the
\* earlier incoming rows) intersects it, all other base rows are unchanged
\* by it, the row is appended iff no base row intersects it, the base table
\* grows by the number of unmatched rows and no base set shrinks.
C18_FirstMatchUnion ==
    [][MergeFile =>
         LET df == read_reduced(dir, cowinner_files[cw])
             src == AccessionsOf(df)
             tgt == AccessionsOf(base_df)
             unmatched == UnmatchedRows(src, tgt)
             n == Len(base_df)
         IN  /\ Len(base_df') = n + Cardinality(unmatched)
             /\ \A j \in 1..n :
                   /\ base_df'[j].Accession = TargetsAfter(Len(src), src, tgt)[j]
                   /\ base_df[j].Accession \subseteq base_df'[j].Accession
                   /\ base_df'[j].ExprDate = base_df[j].ExprDate
                   /\ base_df'[j].N = base_df[j].N
             /\ \A k \in DOMAIN src :
                   (k \in unmatched) <=>
                      (\E j \in (n + 1)..Len(base_df') : base_df'[j] = df[k])
             /\ \A j \in (n + 1)..Len(base_df') :
                   \E k \in unmatched :
                      /\ base_df'[j] = df[k]
                      /\ j = n + Cardinality({k2 \in unmatched : k2 <= k})
    ]_vars

\* base rows {P1} and {P2}, incoming row {P1, P2}: only the first base row
\* takes the union and nothing is appended
C18_Witness ==
    /\ mpc = "merge_loop"
    /\ cw = 3
    /\ AccessionsOf(read_reduced(dir, cowinner_files[1])) = <<{1}, {2}>>
    /\ AccessionsOf(read_reduced(dir, cowinner_files[2])) = <<{1, 2}>>
    /\ AccessionsOf(base_df) = <<{1, 2}, {2}>>

\* a first file {P1}, a second file with the rows {P1, P2} and {P2}: the
\* second row meets the base row only through the union made by the row
\* before it
C18_WitnessChained ==
    /\ mpc = "merge_loop"
    /\ cw = 3
    /\ AccessionsOf(read_reduced(dir, cowinner_files[1])) = <<{1}>>
    /\ AccessionsOf(read_reduced(dir, cowinner_files[2])) = <<{1, 2}, {2}>>
    /\ AccessionsOf(base_df) = <<{1, 2}>>

\* one visit of the sweep to row ii, described for a given set of that row:
\* the row is compared with every earlier row down to the first, is marked
\* iff the set meets at least one of them as it stands, the set is unioned
\* into each of those and into no other, and the first row is never marked
SweepVisit(rowSet) ==
    LET hits == {j \in 1..(ii - 1) : rowSet \cap base_accs[j] # {}}
    IN  /\ ii' = ii - 1
        /\ keep'[ii] = (hits = {})
        /\ \A k \in DOMAIN keep : k # ii => keep'[k] = keep[k]
        /\ keep'[1]
        /\ \A j \in 1..(ii - 1) :
              base_accs'[j] = IF j \in hits THEN base_accs[j] \cup rowSet
                              ELSE base_accs[j]
        /\ \A j \in ii..Len(base_accs) : base_accs'[j] = base_accs[j]

\* C19: the sweep visits i from the last row down to the first and, for
\* each i, every earlier row j down to the first; row i is marked for
\* removal iff its accession set intersects at least one earlier row as
\* that row stands when compared, its set is unioned into every such row,
\* the first row is never removed and every later row is compared with it.
C19_SweepTraversal ==
    [][SweepRow => SweepVisit(base_accs[ii])]_vars

\* the same visit, for the set the enumeration of the outer loop holds
C19_TraversalOfHeldSet ==
    [][SweepRow => SweepVisit(snap[ii])]_vars

\* every row from the last to the first gets its visit before the table is
\* written
C19_AllRowsVisited ==
    [][/\ (SweepStart => ii' = Len(base_df))
       /\ (WriteMerged => ii = 0)]_vars

\* C20: when the sweep reaches row i, the set it tests against the earlier
\* rows and unions into them is the current set of row i, with every
\* accession unioned into it from later rows earlier in the same sweep.
C20_SweepUsesCurrentSet ==
    (mpc = "sweep" /\ ii >= 1) => snap[ii] = base_accs[ii]


\* position of an input row (file name, N) in the order merge reads the rows
SeenBefore(a, b) ==
    LET pos(name) == CHOOSE i \in DOMAIN cowinner_files : cowinner_files[i] = name
    IN  \/ pos(a[1]) < pos(b[1])
        \/ pos(a[1]) = pos(b[1]) /\ a[2] <= b[2]

\* the first-seen of a set of input rows
FirstSeen(ids) == CHOOSE a \in ids : \A b \in ids : SeenBefore(a, b)

\* C27: consolidation changes only the Accession column and the presence of
\* rows: every row of the merged table has in its other columns, Expr Date
\* and N, the values of the first-seen of the input rows merged into it, and
\* every accession of that input row.
C27_ColumnsOfFirstSeenRow ==
    mpc = "done" =>
        LET ab == select_sets(1, absorbed, keep)
        IN  /\ Len(ab) = Len(merged)
            /\ \A k \in DOMAIN merged :
                   /\ merged[k].ExprDate = get_file_id(FirstSeen(ab[k])[1])
                   /\ merged[k].N = FirstSeen(ab[k])[2]
                   /\ InputAccs(FirstSeen(ab[k])) \subseteq AccSetOf(merged[k])

\* one cluster made of the only row of the first file and of both rows of
\* the second file, which differ from it in Expr Date or N
C27_Witness ==
    /\ mpc = "done"
    /\ DOMAIN dir = {FileName(1), FileName(2)}
    /\ dir[FileName(1)] = <<[N |-> 1, Accession |-> <<1, 2>>]>>
    /\ dir[FileName(2)] = <<[N |-> 1, Accession |-> <<3>>],
                            [N |-> 2, Accession |-> <<2, 3>>]>>
    /\ merged = <<[ExprDate |-> get_file_id(FileName(1)), N |-> 1,
                   Accession |-> <<1, 2, 3>>]>>
    /\ get_file_id(FileName(1)) # get_file_id(FileName(2))

-----------------------------------------------------------------------------
(* quantify_config.py and CoWinner.evaluate / CoWinner.validate_config      *)
(*                                                                         *)
(* The model starts from a CoWinner whose _config is a QuantifyConfig over  *)
(* a configuration dictionary (as QuantifyConfig.from_file builds it).      *)

\* bound: number of configured ProteinSummary files
MaxProtFiles == 2

\* an option that is missing from the configuration dictionary
Absent == [present |-> FALSE, value |-> <<>>]
Present(v) == [present |-> TRUE, value |-> v]

\* A configured file path, described by what the filesystem and the name
\* checks answer for it: the prefix get_file_id returns, whether the file
\* exists, whether its name holds a marker token (get_fdr_name succeeds)
\* and whether its FDR companion exists (a name without marker has none).
CfgFiles ==
    {f \in [id : {1, 2}, exists : BOOLEAN, marker : BOOLEAN, fdr : BOOLEAN] :
        ~f.marker => ~f.fdr}

ProtFileLists == UNION {[1..n -> CfgFiles] : n \in 0..MaxProtFiles}

PepFileLists ==
    {<<>>,
     <<[id |-> 1, exists |-> TRUE, marker |-> TRUE, fdr |-> TRUE]>>,
     <<[id |-> 1, exists |-> FALSE, marker |-> TRUE, fdr |-> FALSE]>>}

\* quantify_config.py:14-23
ITRAQ_TAGS == {113, 114, 115, 116, 117, 118, 119, 121}

\* a ratio string as the list of its ':'-separated tags (ratio.split(":"))
RatioLists == {<<>>, << <<114, 113>> >>, << <<114, 112>> >>}

Configs ==
    [ProteinSummaryFiles : {Present(l) : l \in ProtFileLists} \cup {Absent},
     PeptideSummaryFiles : {Present(l) : l \in PepFileLists} \cup {Absent},
     QuantitationRatios : {Present(l) : l \in RatioLists} \cup {Absent}]

\* dict.get(key, []) of the three list properties (quantify_config.py:126-148)
config_get(cfg, key) == IF cfg[key].present THEN cfg[key].value ELSE <<>>

protein_summary_files(cfg) == config_get(cfg, "ProteinSummaryFiles")
peptide_summary_files(cfg) == config_get(cfg, "PeptideSummaryFiles")
quantitation_ratios(cfg) == config_get(cfg, "QuantitationRatios")

ConfigError(lines) == [kind |-> "raise", error |-> "ConfigError", message |-> lines]

\* the loop of _validate_file_list over files[i..] (quantify_config.py:51-69);
\* e.message of a ValueError does not exist: AttributeError
RECURSIVE validate_files_loop(_, _, _, _)
validate_files_loop(i, files, errors, prefixes) ==
    IF i > Len(files) THEN [raised |-> "none", errors |-> errors, prefixes |-> prefixes]
    ELSE LET f == files[i]
             pfx == Append(prefixes, f.id)
         IN IF f.exists
            THEN IF ~f.marker
                 THEN [raised |-> "AttributeError", errors |-> errors, prefixes |-> pfx]
                 ELSE IF ~f.fdr
                      THEN validate_files_loop(i + 1, files,
                               Append(errors, <<"FDR NOT found", i>>), pfx)
                      ELSE validate_files_loop(i + 1, files, errors, pfx)
            ELSE validate_files_loop(i + 1, files,
                     Append(errors, <<"NOT found", i>>), pfx)

\* quantify_config.py:34-76
_validate_file_list(files) ==
    LET res == validate_files_loop(1, files, <<>>, <<>>)
    IN IF res.raised # "none" THEN res
       ELSE IF Cardinality(Range(res.prefixes)) # Len(res.prefixes)
            THEN [res EXCEPT !.errors = Append(@, <<"Duplicate id prefixes">>)]
            ELSE res

\* quantify_config.py:205-215
_validate_quantitation_ratios(ratios) ==
    LET bad == SelectSeq([i \in DOMAIN ratios |-> i],
                   LAMBDA i : \E k \in DOMAIN ratios[i] :
                                 ratios[i][k] \notin ITRAQ_TAGS)
    IN [i \in DOMAIN bad |-> <<"Invalid quantitation ratio", bad[i]>>]

\* quantify_config.py:176-191
validate(cfg) ==
    LET prot == _validate_file_list(protein_summary_files(cfg))
        pep == _validate_file_list(peptide_summary_files(cfg))
        errors == prot.errors \o pep.errors
                    \o _validate_quantitation_ratios(quantitation_ratios(cfg))
    IN IF prot.raised # "none" THEN Raised(prot.raised)
       ELSE IF pep.raised # "none" THEN Raised(pep.raised)
       ELSE IF errors # <<>> THEN ConfigError(errors)
       ELSE Returned("None")

\* cowinner.py:34-43
ValidateConfig ==
    /\ epc # "off"
    /\ val_out = NoCall
    /\ val_out' = validate(config)
    /\ UNCHANGED <<config, out_dir, workers_started, fs_ops, tasks, eval_out, epc>>
    /\ UNCHANGED <<mergeVars, fdrVars, quantVars, normVars, poolVars, strVars, tabVars, redVars, grpVars, nmVars, stgVars>>

NO_PROTEIN_FILES == "No ProteinSummary files configured"

\* evaluate creating the output directory before it looks at the list
EvalCheck_MkdirFirst ==
    /\ epc = "idle"
    /\ out_dir' = TRUE
    /\ fs_ops' = IF out_dir THEN fs_ops ELSE fs_ops \cup {<<"makedirs">>}
    /\ IF protein_summary_files(config) = <<>>
       THEN /\ eval_out' = ConfigError(<<NO_PROTEIN_FILES>>)
            /\ epc' = "raised"
       ELSE /\ eval_out' = eval_out
            /\ epc' = "pool"
    /\ UNCHANGED <<config, workers_started, tasks, val_out>>
    /\ UNCHANGED <<mergeVars, fdrVars, quantVars, normVars, poolVars, strVars, tabVars, redVars, grpVars, nmVars, stgVars>>

\* cowinner.py:48-50
EvalCheck ==
    /\ epc = "idle"
    /\ IF protein_summary_files(config) = <<>>
       THEN /\ eval_out' = ConfigError(<<NO_PROTEIN_FILES>>)
            /\ epc' = "raised"
       ELSE /\ eval_out' = eval_out
            /\ epc' = "mkdir"
    /\ UNCHANGED <<config, out_dir, workers_started, fs_ops, tasks, val_out>>
    /\ UNCHANGED <<mergeVars, fdrVars, quantVars, normVars, poolVars, strVars, tabVars, redVars, grpVars, nmVars, stgVars>>

\* cowinner.py:52-53
EvalMkdir ==
    /\ epc = "mkdir"
    /\ out_dir' = TRUE
    /\ fs_ops' = IF out_dir THEN fs_ops ELSE fs_ops \cup {<<"makedirs">>}
    /\ epc' = "pool"
    /\ UNCHANGED <<config, workers_started, tasks, eval_out, val_out>>
    /\ UNCHANGED <<mergeVars, fdrVars, quantVars, normVars, poolVars, strVars, tabVars, redVars, grpVars, nmVars, stgVars>>

\* cowinner.py:57-58: the pool is created and every file becomes a task
\* (for at most 16 files pool.map puts each file in a chunk of its own)
EvalStartPool ==
    /\ epc = "pool"
    /\ workers_started' = TRUE
    /\ tasks' = [i \in DOMAIN protein_summary_files(config) |-> "pending"]
    /\ epc' = "map"
    /\ UNCHANGED <<config, out_dir, fs_ops, eval_out, val_out>>
    /\ UNCHANGED <<mergeVars, fdrVars, quantVars, normVars, poolVars, strVars, tabVars, redVars, grpVars, nmVars, stgVars>>

\* cowinner.py:64-83: outcome and filesystem operations of one task
process_protein_summary(i, f) ==
    IF ~f.marker THEN [status |-> "ValueError", ops |-> {}]
    ELSE IF ~f.fdr THEN [status |-> "FileNotFoundError", ops |-> {}]
    ELSE IF ~f.exists
         THEN [status |-> "FileNotFoundError", ops |-> {<<"read_fdr", i>>}]
         ELSE [status |-> "ok",
               ops |-> {<<"read_fdr", i>>, <<"read", i>>, <<"write", i>>}]

\* a worker runs _process_protein_summary on one pending file
EvalTask ==
    /\ epc = "map"
    /\ \E i \in DOMAIN tasks :
          /\ tasks[i] = "pending"
          /\ LET res == process_protein_summary(i, protein_summary_files(config)[i])
             IN /\ tasks' = [tasks EXCEPT ![i] = res.status]
                /\ fs_ops' = fs_ops \cup res.ops
    /\ UNCHANGED <<config, out_dir, workers_started, eval_out, val_out, epc>>
    /\ UNCHANGED <<mergeVars, fdrVars, quantVars, normVars, poolVars, strVars, tabVars, redVars, grpVars, nmVars, stgVars>>

\* cowinner.py:58-62: pool.map returns when every task has finished and
\* re-raises the error of a failed task
EvalJoin ==
    /\ epc = "map"
    /\ \A i \in DOMAIN tasks : tasks[i] # "pending"
    /\ IF \E i \in DOMAIN tasks : tasks[i] # "ok"
       THEN /\ \E i \in DOMAIN tasks :
                  /\ tasks[i] # "ok"
                  /\ eval_out' = Raised(tasks[i])
            /\ epc' = "raised"
       ELSE /\ eval_out' = Returned("None")
            /\ epc' = "done"
    /\ UNCHANGED <<config, out_dir, workers_started, fs_ops, tasks, val_out>>
    /\ UNCHANGED <<mergeVars, fdrVars, quantVars, normVars, poolVars, strVars, tabVars, redVars, grpVars, nmVars, stgVars>>

InitCfg ==
    /\ config \in Configs
    /\ out_dir \in BOOLEAN
    /\ workers_started = FALSE
    /\ fs_ops = {}
    /\ tasks = <<>>
    /\ eval_out = NoCall
    /\ val_out = NoCall
    /\ epc = "idle"
    /\ dir = <<>>
    /\ mpc = "off"
    /\ InitMergeIdle
    /\ InitFdrIdle
    /\ InitQuantIdle
    /\ InitNormIdle
    /\ InitPoolIdle
    /\ InitStrIdle
    /\ InitTabIdle
    /\ InitRedIdle
    /\ InitGrpIdle
    /\ InitNmIdle
    /\ InitStgIdle

NextCfg ==
    \/ ValidateConfig
    \/ EvalCheck
    \/ EvalMkdir
    \/ EvalStartPool
    \/ EvalTask
    \/ EvalJoin

SpecCfg == InitCfg /\ [][NextCfg]_vars

\* the ProteinSummaryFiles option is missing or an empty list
NoProteinFiles ==
    \/ ~config.ProteinSummaryFiles.present
    \/ config.ProteinSummaryFiles.value = <<>>

\* C5: with a missing or empty list of ProteinSummary files, evaluate fails
\* with ConfigError before any filesystem action: no directory is created,
\* no worker is started, no file is read or written.
C5_EvaluateFailsFirst ==
    NoProteinFiles =>
        /\ fs_ops = {}
        /\ ~workers_started
        /\ epc \in {"idle", "raised"}
        /\ (epc = "raised" => eval_out = ConfigError(<<NO_PROTEIN_FILES>>))

C5_Witness ==
    /\ ~config.ProteinSummaryFiles.present
    /\ ~out_dir
    /\ epc = "raised"
    /\ eval_out.error = "ConfigError"
    /\ fs_ops = {}

\* C6: validate_config raises ConfigError with the message "No
\* ProteinSummary files configured" when the ProteinSummaryFiles option is
\* absent and when it is an empty list.
C6_ValidateNoInput ==
    (NoProteinFiles /\ val_out # NoCall) =>
        /\ val_out.kind = "raise"
        /\ val_out.error = "ConfigError"
        /\ NO_PROTEIN_FILES \in Range(val_out.message)

\* the problems of one configured file list, one entry each
FileListProblems(files) ==
    {<<"NOT found", i>> : i \in {k \in DOMAIN files : ~files[k].exists}}
    \cup {<<"FDR NOT found", i>> :
             i \in {k \in DOMAIN files :
                      files[k].exists /\ files[k].marker /\ ~files[k].fdr}}
    \cup {<<"no marker token", i>> :
             i \in {k \in DOMAIN files : files[k].exists /\ ~files[k].marker}}
    \cup (IF \E j, k \in DOMAIN files : j # k /\ files[j].id = files[k].id
          THEN {<<"Duplicate id prefixes">>} ELSE {})

RatioProblems(ratios) ==
    {<<"Invalid quantitation ratio", i>> :
        i \in {k \in DOMAIN ratios :
                 \E t \in DOMAIN ratios[k] : ratios[k][t] \notin ITRAQ_TAGS}}

ProblemCount(cfg) ==
    Cardinality(FileListProblems(protein_summary_files(cfg)))
    + Cardinality(FileListProblems(peptide_summary_files(cfg)))
    + Cardinality(RatioProblems(quantitation_ratios(cfg)))

\* C13: validate examines every configured file and ratio: it returns
\* normally when there is no problem, and otherwise raises one ConfigError
\* whose message has one entry per missing file, per missing FDR companion,
\* per name without marker token, per file list with a duplicate prefix and
\* per invalid ratio; it never fails with another error type.
C13_ValidateReportsAll ==
    val_out # NoCall =>
        IF ProblemCount(config) = 0
        THEN val_out = Returned("None")
        ELSE /\ val_out.kind = "raise"
             /\ val_out.error = "ConfigError"
             /\ Len(val_out.message) = ProblemCount(config)

-----------------------------------------------------------------------------
(* quantitation.py: one run of Quantifier._process_peptide_summary          *)

\* bound: number of rows of a PeptideSummary table
MaxPepRows == 3

\* quantify_config.py:157: default of PeptideConfidenceThreshold
PeptideConfidenceThreshold == 95

\* the iTRAQ ratio of the run and the names of its two columns
RunRatio == "114:113"
ratio_col(ratio) == <<"ratio", ratio>>
err_col(ratio) == <<"%Err", ratio>>

\* values n_passed_fdr may take
FdrCounts == {1, 2}

\* Rows of a PeptideSummary table.  Spectrum is the position of the row in
\* the file; a column that the table lacks has the value 0 in every row.
PepRowValues(cols) ==
    [N : {1, 2}, Conf : {94, 95}, Used : {0, 1},
     ratio : IF ratio_col(RunRatio) \in cols THEN {1, 100} ELSE {0},
     err : IF err_col(RunRatio) \in cols THEN {10} ELSE {0}]

\* the table read from a file whose rows hold the values f[1], ..., f[n]
PepTable(cols, n, f) ==
    [cols |-> cols,
     rows |-> [k \in 1..n |->
                 [Spectrum |-> k, N |-> f[k].N, Conf |-> f[k].Conf,
                  Used |-> f[k].Used, ratio |-> f[k].ratio,
                  err |-> f[k].err]]]

\* the filter without the test of the ratio value
filter_rows_keep_100(rows, max_n, conf_threshold) ==
    SelectSeq(rows, LAMBDA r : /\ r.N <= max_n
                               /\ r.Conf >= conf_threshold
                               /\ r.Used = 1)

\* the boolean mask of _filter_peptides applied to the rows
\* (quantitation.py:326-337)
filter_rows(rows, max_n, conf_threshold) ==
    SelectSeq(rows, LAMBDA r : /\ r.N <= max_n
                               /\ r.Conf >= conf_threshold
                               /\ r.Used = 1
                               /\ r.ratio # 100)

\* quantitation.py:233-235: self._ratio = ratio; read_tsv(peptide_summary)
QStart ==
    /\ qpc = "idle"
    /\ q_ratio' = RunRatio
    /\ \E cols \in SUBSET {ratio_col(RunRatio), err_col(RunRatio)} :
          \E n \in 0..MaxPepRows :
             \E f \in [1..n -> PepRowValues(cols)] :
                q_table' = PepTable(cols, n, f)
    /\ qpc' = "read_fdr"
    /\ UNCHANGED <<q_max_n, summary_df, peptide_df, q_out, q_written>>
    /\ UNCHANGED <<mergeVars, fdrVars, cfgVars, normVars, poolVars, strVars, tabVars, redVars, grpVars, nmVars, stgVars>>

\* quantitation.py:237: n_passed_fdr = read_fdr_value(get_fdr_name(...))
QReadFdr ==
    /\ qpc = "read_fdr"
    /\ \E n \in FdrCounts : q_max_n' = n
    /\ qpc' = "filter"
    /\ UNCHANGED <<q_ratio, q_table, summary_df, peptide_df, q_out, q_written>>
    /\ UNCHANGED <<mergeVars, fdrVars, cfgVars, normVars, poolVars, strVars, tabVars, redVars, grpVars, nmVars, stgVars>>

\* quantitation.py:239, 313-337: df[self._ratio] of a table without that
\* column is a KeyError
QFilter ==
    /\ qpc = "filter"
    /\ IF ratio_col(q_ratio) \notin q_table.cols
       THEN /\ q_out' = Raised("KeyError")
            /\ qpc' = "failed"
            /\ UNCHANGED summary_df
       ELSE /\ summary_df' = [q_table EXCEPT !.rows =
                                filter_rows(q_table.rows, q_max_n,
                                            PeptideConfidenceThreshold)]
            /\ qpc' = "setup"
            /\ UNCHANGED q_out
    /\ UNCHANGED <<q_ratio, q_table, q_max_n, peptide_df, q_written>>
    /\ UNCHANGED <<mergeVars, fdrVars, cfgVars, normVars, poolVars, strVars, tabVars, redVars, grpVars, nmVars, stgVars>>

\* quantitation.py:241-242, 342-364: the projection on the fixed columns is
\* a KeyError when "%Err {ratio}" is missing; ln(ratio) and 1/%Err are kept
\* as terms
QSetupPeptide ==
    /\ qpc = "setup"
    /\ IF err_col(q_ratio) \notin summary_df.cols
       THEN /\ q_out' = Raised("KeyError")
            /\ qpc' = "failed"
            /\ UNCHANGED peptide_df
       ELSE /\ peptide_df' =
                 [k \in DOMAIN summary_df.rows |->
                    [Expt |-> "file", N |-> summary_df.rows[k].N,
                     Spectrum |-> summary_df.rows[k].Spectrum,
                     ratio |-> summary_df.rows[k].ratio,
                     err |-> summary_df.rows[k].err,
                     ln_ratio |-> <<"ln", summary_df.rows[k].ratio>>,
                     err_reciprocal |-> <<1, summary_df.rows[k].err>>]]
            /\ qpc' = "compute"
            /\ UNCHANGED q_out
    /\ UNCHANGED <<q_ratio, q_table, q_max_n, summary_df, q_written>>
    /\ UNCHANGED <<mergeVars, fdrVars, cfgVars, normVars, poolVars, strVars, tabVars, redVars, grpVars, nmVars, stgVars>>

\* tag_ratio.replace(":", "-") (quantitation.py:47)
replace_colon(tag_ratio) ==
    CASE tag_ratio = "114:113" -> "114-113"
      [] tag_ratio = "115:113" -> "115-113"
      [] OTHER -> tag_ratio

OUTPUT_INSERT == " hkuNoBgCorr"

\* A path is its 8-character file id and the rest of its base name.
\* quantitation.py:33-50: str.replace changes the base name only where it
\* holds "_PeptideSummary.txt"; any other base name is returned as it is.
get_quant_output_file_name(summary_path, tag_ratio) ==
    IF summary_path.tail = "_PeptideSummary.txt"
    THEN [id |-> summary_path.id, ratio_str |-> replace_colon(tag_ratio),
          tail |-> <<"_PeptideSummary", OUTPUT_INSERT, ".xlsx">>]
    ELSE [id |-> summary_path.id, ratio_str |-> "",
          tail |-> <<summary_path.tail>>]

\* the PeptideSummary file of the run
RunPath == [id |-> 1, tail |-> "_PeptideSummary.txt"]

\* quantitation.py:244-260: the derived tables are computed and the
\* workbook is written
QWrite ==
    /\ qpc = "compute"
    /\ q_written' = q_written \cup {get_quant_output_file_name(RunPath, q_ratio)}
    /\ q_out' = Returned("None")
    /\ qpc' = "done"
    /\ UNCHANGED <<q_ratio, q_table, q_max_n, summary_df, peptide_df>>
    /\ UNCHANGED <<mergeVars, fdrVars, cfgVars, normVars, poolVars, strVars, tabVars, redVars, grpVars, nmVars, stgVars>>

InitQuant ==
    /\ q_ratio = "None"
    /\ q_table = NoTable
    /\ q_max_n = 0
    /\ summary_df = NoTable
    /\ peptide_df = NoTable
    /\ q_out = NoCall
    /\ q_written = {}
    /\ qpc = "idle"
    /\ dir = <<>>
    /\ mpc = "off"
    /\ InitMergeIdle
    /\ InitFdrIdle
    /\ InitCfgIdle
    /\ InitNormIdle
    /\ InitPoolIdle
    /\ InitStrIdle
    /\ InitTabIdle
    /\ InitRedIdle
    /\ InitGrpIdle
    /\ InitNmIdle
    /\ InitStgIdle

NextQuant ==
    \/ QStart
    \/ QReadFdr
    \/ QFilter
    \/ QSetupPeptide
    \/ QWrite

SpecQuant == InitQuant /\ [][NextQuant]_vars

Filtered == qpc \in {"setup", "compute", "done"}

\* the condition of the claim for one row
KeepRow(r) ==
    /\ r.N <= q_max_n
    /\ r.Conf >= PeptideConfidenceThreshold
    /\ r.Used = 1
    /\ r.ratio # 100

\* C9: the peptide filter keeps a row if and only if N <= fdr_count, Conf >=
\* the confidence threshold, Used = 1 and the ratio value is not 100; a row
\* with ratio 100 is never kept, and the kept rows stay in their order.
C9_FilterPeptides ==
    Filtered =>
        /\ Range(summary_df.rows) = {r \in Range(q_table.rows) : KeepRow(r)}
        /\ \A r \in Range(summary_df.rows) : r.ratio # 100
        /\ \A i, j \in DOMAIN summary_df.rows :
              i < j => summary_df.rows[i].Spectrum < summary_df.rows[j].Spectrum

\* two kept rows around a row that only its ratio value 100 excludes
C9_Witness ==
    /\ Filtered
    /\ Len(q_table.rows) = 3
    /\ q_table.rows[2].ratio = 100
    /\ q_table.rows[2].N <= q_max_n
    /\ q_table.rows[2].Conf >= PeptideConfidenceThreshold
    /\ q_table.rows[2].Used = 1
    /\ summary_df.rows = <<q_table.rows[1], q_table.rows[3]>>

MissingColumn ==
    /\ qpc \notin {"idle", "read_fdr"}
    /\ \/ ratio_col(q_ratio) \notin q_table.cols
       \/ err_col(q_ratio) \notin q_table.cols

\* C10: a run whose peptide table lacks the ratio column or its %Err column
\* fails with ConfigError, and no output artifact of the run is written.
C10_MissingColumn ==
    MissingColumn =>
        /\ q_written = {}
        /\ qpc # "done"
        /\ (qpc = "failed" => q_out = Raised("ConfigError"))

-----------------------------------------------------------------------------
(* quantitation.py:249-253: the normalization factor of one run            *)

\* bound: number of rows of the protein table
MaxProteinRows == 3
\* bound: number of rows of the peptide table
MaxNormPeptides == 2

\* Floating point values are kept as fractions in lowest terms; den = 0 is
\* nan.
RECURSIVE Gcd(_, _)
Gcd(a, b) == IF b = 0 THEN a ELSE Gcd(b, a % b)

Rat(n, d) == [num |-> n \div Gcd(n, d), den |-> d \div Gcd(n, d)]
NaN == [num |-> 0, den |-> 0]
IsNaN(x) == x.den = 0
RatLess(a, b) == a.num * b.den < b.num * a.den
RatAdd(a, b) == Rat(a.num * b.den + b.num * a.den, a.den * b.den)
RatDiv(a, b) ==
    IF IsNaN(a) \/ IsNaN(b) THEN NaN ELSE Rat(a.num * b.den, a.den * b.num)
RatMul(a, b) ==
    IF IsNaN(a) \/ IsNaN(b) THEN NaN ELSE Rat(a.num * b.num, a.den * b.den)

\* values of the column exp(weighted average), all positive
ExpAvgValues == {Rat(8, 10), Rat(10, 10), Rat(15, 10)}
\* values of the raw ratio column of the peptide table
PeptideRatios == {Rat(5, 10), Rat(20, 10)}

\* ascending sort of a sequence of values
RECURSIVE sort_values(_)
sort_values(s) ==
    IF s = <<>> THEN <<>>
    ELSE LET rest == sort_values(Tail(s))
             lower == SelectSeq(rest, LAMBDA x : RatLess(x, Head(s)))
             upper == SelectSeq(rest, LAMBDA x : ~RatLess(x, Head(s)))
         IN  lower \o <<Head(s)>> \o upper

RECURSIVE sum_values(_)
sum_values(s) == IF s = <<>> THEN Rat(0, 1) ELSE RatAdd(Head(s), sum_values(Tail(s)))

\* the arithmetic mean in place of the median
np_median_as_mean(values) ==
    IF values = <<>> THEN NaN
    ELSE RatDiv(sum_values(values), Rat(Len(values), 1))

\* np.median: the middle value of the sorted values, the mean of the two
\* middle values for an even count, nan for no value
np_median(values) ==
    LET n == Len(values)
        srt == sort_values(values)
    IN  IF n = 0 THEN NaN
        ELSE IF n % 2 = 1 THEN srt[(n + 1) \div 2]
        ELSE RatDiv(RatAdd(srt[n \div 2], srt[n \div 2 + 1]), Rat(2, 1))

exp_weighted_avgs(protein_df) ==
    [k \in DOMAIN protein_df |-> protein_df[k].exp_weighted_avg]

Passed(v) == [kind |-> "arg", value |-> v]

\* quantitation.py:249, 467-487: _update_protein_df
NUpdateProtein ==
    /\ npc = "update"
    /\ LET m == np_median(exp_weighted_avgs(n_protein))
       IN  /\ n_medians' = n_medians + 1
           /\ n_protein' =
                 [k \in DOMAIN n_protein |->
                    [exp_weighted_avg |-> n_protein[k].exp_weighted_avg,
                     norm_ratio |-> RatDiv(n_protein[k].exp_weighted_avg, m)]]
           /\ median_exp_avg' = Returned(m)
    /\ npc' = "finalize_peptide"
    /\ UNCHANGED <<n_peptide, wx_norm_factor>>
    /\ UNCHANGED <<mergeVars, fdrVars, cfgVars, quantVars, poolVars, strVars, tabVars, redVars, grpVars, nmVars, stgVars>>

\* quantitation.py:251, 386-412: _finalize_peptide_df(peptide_df,
\* exp_avg_wx_factor)
NFinalizePeptide ==
    /\ npc = "finalize_peptide"
    /\ wx_norm_factor' = Passed(median_exp_avg.value)
    /\ n_peptide' =
          [k \in DOMAIN n_peptide |->
             [ratio |-> n_peptide[k].ratio,
              norm_ratio |-> RatDiv(n_peptide[k].ratio, median_exp_avg.value)]]
    /\ npc' = "finalize_protein"
    /\ UNCHANGED <<n_protein, median_exp_avg, n_medians>>
    /\ UNCHANGED <<mergeVars, fdrVars, cfgVars, quantVars, poolVars, strVars, tabVars, redVars, grpVars, nmVars, stgVars>>

\* quantitation.py:253, 489-525: _finalize_protein_df reads the normalized
\* protein ratio column and adds the statistics columns
NFinalizeProtein ==
    /\ npc = "finalize_protein"
    /\ npc' = "done"
    /\ UNCHANGED <<n_protein, n_peptide, median_exp_avg, wx_norm_factor,
                   n_medians>>
    /\ UNCHANGED <<mergeVars, fdrVars, cfgVars, quantVars, poolVars, strVars, tabVars, redVars, grpVars, nmVars, stgVars>>

\* the state after _setup_protein_df (quantitation.py:248)
InitNorm ==
    /\ \E n \in 0..MaxProteinRows :
          n_protein \in [1..n -> [exp_weighted_avg : ExpAvgValues]]
    /\ \E n \in 0..MaxNormPeptides :
          n_peptide \in [1..n -> [ratio : PeptideRatios]]
    /\ median_exp_avg = NoCall
    /\ wx_norm_factor = NoCall
    /\ n_medians = 0
    /\ npc = "update"
    /\ dir = <<>>
    /\ mpc = "off"
    /\ InitMergeIdle
    /\ InitFdrIdle
    /\ InitCfgIdle
    /\ InitQuantIdle
    /\ InitPoolIdle
    /\ InitStrIdle
    /\ InitTabIdle
    /\ InitRedIdle
    /\ InitGrpIdle
    /\ InitNmIdle
    /\ InitStgIdle

NextNorm ==
    \/ NUpdateProtein
    \/ NFinalizePeptide
    \/ NFinalizeProtein

SpecNorm == InitNorm /\ [][NextNorm]_vars

FactorComputed == npc \in {"finalize_peptide", "finalize_protein", "done"}
FactorPassed == npc \in {"finalize_protein", "done"}

\* m is the median of the values: at most half of them lie below it and at
\* most half above it, and it is one of them or the midpoint of two of them
IsMedianOf(m, values) ==
    LET n == Len(values)
        below == Cardinality({k \in 1..n : RatLess(values[k], m)})
        above == Cardinality({k \in 1..n : RatLess(m, values[k])})
    IN  /\ 2 * below <= n
        /\ 2 * above <= n
        /\ \/ \E k \in 1..n : values[k] = m
           \/ \E j, k \in 1..n :
                 /\ RatAdd(values[j], values[k]) = RatAdd(m, m)
                 /\ Cardinality({i \in 1..n : RatLess(values[i], m)}) = n \div 2
                 /\ Cardinality({i \in 1..n : RatLess(m, values[i])}) = n \div 2

\* x = a / b, stated by multiplication
IsQuotient(x, a, b) == x.num * b.num * a.den = a.num * x.den * b.den

ScenarioAvgs == <<Rat(8, 10), Rat(10, 10), Rat(15, 10)>>

\* C11: in one run the normalization factor is computed exactly once, as
\* the median of exp(weighted average) over all protein rows; every protein
\* row's normalized ratio is its own exp(weighted average) divided by that
\* factor, and the factor handed to the peptide finalize step is that same
\* value.  For [0.8, 1.0, 1.5] the factor is 1.0 and the normalized ratios
\* are [0.8, 1.0, 1.5].
C11_NormalizationFactor ==
    (FactorComputed /\ n_protein # <<>>) =>
        /\ n_medians = 1
        /\ median_exp_avg.kind = "return"
        /\ IsMedianOf(median_exp_avg.value, exp_weighted_avgs(n_protein))
        /\ \A k \in DOMAIN n_protein :
              IsQuotient(n_protein[k].norm_ratio,
                         n_protein[k].exp_weighted_avg, median_exp_avg.value)
        /\ FactorPassed =>
              /\ wx_norm_factor = Passed(median_exp_avg.value)
              /\ \A k \in DOMAIN n_peptide :
                    IsQuotient(n_peptide[k].norm_ratio, n_peptide[k].ratio,
                               median_exp_avg.value)
        /\ exp_weighted_avgs(n_protein) = ScenarioAvgs =>
              /\ median_exp_avg.value = Rat(1, 1)
              /\ [k \in DOMAIN n_protein |-> n_protein[k].norm_ratio]
                    = ScenarioAvgs

\* the scenario of the claim, after the peptide finalize step
C11_Witness ==
    /\ npc = "done"
    /\ exp_weighted_avgs(n_protein) = ScenarioAvgs
    /\ median_exp_avg = Returned(Rat(1, 1))
    /\ Len(n_peptide) = 2
    /\ n_medians = 1

-----------------------------------------------------------------------------
(* quantitation.py:176-196: Quantifier.quantify, the batch of (file, ratio) *)
(* units run by the worker pool                                            *)

\* bound: number of configured PeptideSummary files
MaxPepFiles == 9
\* bound: number of leading files of the list that may be other than good
MaxBadFiles == 1

\* quantitation.py:187: mp.Pool(processes=4)
POOL_PROCESSES == 4

\* What a configured file is: good; odd_name, an existing file with FDR
\* companion whose base name holds the marker PeptideSummary but not the
\* text "_PeptideSummary.txt"; no_fdr, without FDR companion; no_column,
\* without the column of the ratio 114:113.
FileKinds == {"good", "odd_name", "no_fdr", "no_column"}

PoolRatioLists == {<<"114:113">>, <<"114:113", "115:113">>}

file_path(k, kind) ==
    [id |-> k,
     tail |-> IF kind = "odd_name" THEN "_PeptideSummary.tsv"
              ELSE "_PeptideSummary.txt"]

\* itertools.product(peptide_summary_files, quantitation_ratios): the units
\* 1..NumUnits in file-major order
NumUnits == Len(p_files) * Len(p_ratios)
unit_file(u) == ((u - 1) \div Len(p_ratios)) + 1
unit_ratio(u) == p_ratios[((u - 1) % Len(p_ratios)) + 1]

\* Pool._map_async: chunksize, extra = divmod(len(iterable), processes * 4);
\* if extra: chunksize += 1
chunksize(n) ==
    IF n % (POOL_PROCESSES * 4) # 0
    THEN (n \div (POOL_PROCESSES * 4)) + 1
    ELSE n \div (POOL_PROCESSES * 4)

NumChunks == IF NumUnits = 0 THEN 0
             ELSE (NumUnits + chunksize(NumUnits) - 1) \div chunksize(NumUnits)

\* the unit at position pos of chunk c, and the number of units of chunk c
chunk_unit(c, pos) == (c - 1) * chunksize(NumUnits) + pos
chunk_len(c) ==
    IF c * chunksize(NumUnits) <= NumUnits THEN chunksize(NumUnits)
    ELSE NumUnits - (c - 1) * chunksize(NumUnits)

\* outcome of _process_peptide_summary on a unit (quantitation.py:233-260)
unit_error(u) ==
    LET kind == p_files[unit_file(u)]
    IN  IF kind = "no_fdr" THEN "FileNotFoundError"
        ELSE IF kind = "no_column" /\ unit_ratio(u) = "114:113" THEN "KeyError"
        ELSE "ok"

\* the stages reading self._ratio without the assignment of line 233
observed_ratio_stale(self_ratio, ratio) == self_ratio

\* quantitation.py:233: self._ratio = ratio comes before every stage, so the
\* stages read the ratio of the unit whatever the object held before
observed_ratio(self_ratio, ratio) == ratio

\* quantitation.py:184-188: the units are built and handed to pool.starmap
PStartMap ==
    /\ ppc = "idle"
    /\ p_status' = [u \in 1..NumUnits |-> "pending"]
    /\ p_seen' = [u \in 1..NumUnits |-> "unread"]
    /\ p_next' = 1
    /\ ppc' = "map"
    /\ UNCHANGED <<p_files, p_ratios, p_running, p_written, p_first, p_out,
                   p_self_ratio>>
    /\ UNCHANGED <<mergeVars, fdrVars, cfgVars, quantVars, normVars, strVars, tabVars, redVars, grpVars, nmVars, stgVars>>

\* A free worker process takes the next chunk from the task queue and
\* unpickles the bound method: a copy of the Quantifier of the caller.
PDispatch ==
    /\ ppc = "map"
    /\ p_next <= NumChunks
    /\ Cardinality(p_running) < POOL_PROCESSES
    /\ p_running' = p_running \cup
          {[chunk |-> p_next, pos |-> 1, self_ratio |-> p_self_ratio]}
    /\ p_next' = p_next + 1
    /\ UNCHANGED <<p_files, p_ratios, p_status, p_seen, p_written, p_first,
                   p_out, p_self_ratio, ppc>>
    /\ UNCHANGED <<mergeVars, fdrVars, cfgVars, quantVars, normVars, strVars, tabVars, redVars, grpVars, nmVars, stgVars>>

\* A worker runs _process_peptide_summary on the next unit of its chunk
\* (starmapstar: list(itertools.starmap(func, chunk))).  An error ends the
\* chunk: its remaining units are not run, and the map result keeps the
\* first error only.
PRunUnit ==
    /\ ppc = "map"
    /\ \E c \in p_running :
          LET u == chunk_unit(c.chunk, c.pos)
              seen == observed_ratio(c.self_ratio, unit_ratio(u))
              err == unit_error(u)
          IN  /\ p_status' = [p_status EXCEPT ![u] = err]
              /\ p_seen' = [p_seen EXCEPT ![u] =
                              IF err = "FileNotFoundError" THEN @ ELSE seen]
              /\ IF err = "ok"
                 THEN /\ p_written' = p_written \cup
                            {<<get_quant_output_file_name(
                                  file_path(unit_file(u), p_files[unit_file(u)]),
                                  seen), u>>}
                      /\ p_running' =
                            IF c.pos < chunk_len(c.chunk)
                            THEN (p_running \ {c}) \cup
                                    {[c EXCEPT !.pos = c.pos + 1,
                                               !.self_ratio = seen]}
                            ELSE p_running \ {c}
                      /\ UNCHANGED p_first
                 ELSE /\ p_running' = p_running \ {c}
                      /\ p_first' = IF p_first = NoCall
                                    THEN [kind |-> "raise", error |-> err,
                                          unit |-> u]
                                    ELSE p_first
                      /\ UNCHANGED p_written
    /\ UNCHANGED <<p_files, p_ratios, p_next, p_out, p_self_ratio, ppc>>
    /\ UNCHANGED <<mergeVars, fdrVars, cfgVars, quantVars, normVars, strVars, tabVars, redVars, grpVars, nmVars, stgVars>>

\* quantitation.py:188-196: starmap returns when every chunk has ended and
\* re-raises the stored error; without error self._ratio is reset
PJoin ==
    /\ ppc = "map"
    /\ p_next > NumChunks
    /\ p_running = {}
    /\ IF p_first = NoCall
       THEN /\ p_out' = Returned("None")
            /\ p_self_ratio' = "None"
            /\ ppc' = "done"
       ELSE /\ p_out' = p_first
            /\ ppc' = "raised"
            /\ UNCHANGED p_self_ratio
    /\ UNCHANGED <<p_files, p_ratios, p_next, p_running, p_status, p_seen,
                   p_written, p_first>>
    /\ UNCHANGED <<mergeVars, fdrVars, cfgVars, quantVars, normVars, strVars, tabVars, redVars, grpVars, nmVars, stgVars>>

InitPool ==
    /\ \E n \in 1..MaxPepFiles :
          \E f \in [1..(IF n < MaxBadFiles THEN n ELSE MaxBadFiles) -> FileKinds] :
             p_files = [k \in 1..n |-> IF k \in DOMAIN f THEN f[k] ELSE "good"]
    /\ p_ratios \in PoolRatioLists
    /\ p_next = 0
    /\ p_running = {}
    /\ p_status = <<>>
    /\ p_seen = <<>>
    /\ p_written = {}
    /\ p_first = NoCall
    /\ p_out = NoCall
    /\ p_self_ratio = "None"
    /\ ppc = "idle"
    /\ dir = <<>>
    /\ mpc = "off"
    /\ InitMergeIdle
    /\ InitFdrIdle
    /\ InitCfgIdle
    /\ InitQuantIdle
    /\ InitNormIdle
    /\ InitStrIdle
    /\ InitTabIdle
    /\ InitRedIdle
    /\ InitGrpIdle
    /\ InitNmIdle
    /\ InitStgIdle

NextPool ==
    \/ PStartMap
    \/ PDispatch
    \/ PRunUnit
    \/ PJoin

SpecPool == InitPool /\ [][NextPool]_vars

BatchEnded == ppc \in {"done", "raised"}
FailingUnits == {u \in 1..NumUnits : unit_error(u) # "ok"}
ReportedUnits == IF p_out.kind = "raise" THEN {p_out.unit} ELSE {}

\* C12: when a unit of the batch fails, every sibling unit still runs to
\* completion and writes its output, and the failures are reported in
\* aggregate after all units have finished.
C12_SiblingsUnaffected ==
    BatchEnded =>
        /\ \A u \in 1..NumUnits : p_status[u] # "pending"
        /\ \A u \in 1..NumUnits :
              unit_error(u) = "ok" => \E w \in p_written : w[2] = u
        /\ ReportedUnits = FailingUnits

\* C16: each (file, ratio) unit writes only its own output artifact: two
\* distinct units never write the same output path.
C16_DistinctOutputs ==
    \A a, b \in p_written : a[2] # b[2] => a[1] # b[1]

unit_path(u) == file_path(unit_file(u), p_files[unit_file(u)])

-----------------------------------------------------------------------------
(* utilities.py:40-45 and cowinner.py:118-120 on strings of characters:     *)
(* series.str.split("; ").map(set) and "; ".join(sorted(a))                 *)

\* bound: number of characters of an Accession string
MaxStrLen == 5

\* A string is the sequence of its code points: space, ';', 'A', 'B'.
Chars == {32, 59, 65, 66}
SEP == <<59, 32>>

Strings == UNION {[1..n -> Chars] : n \in 1..MaxStrLen}

\* str.split(sep): cut at every occurrence of sep, scanning from the left
RECURSIVE str_split_from(_, _, _)
str_split_from(str, i, cur) ==
    IF i > Len(str) THEN <<cur>>
    ELSE IF i < Len(str) /\ str[i] = SEP[1] /\ str[i + 1] = SEP[2]
         THEN <<cur>> \o str_split_from(str, i + 2, <<>>)
         ELSE str_split_from(str, i + 1, Append(cur, str[i]))

str_split(str) == str_split_from(str, 1, <<>>)

\* sep.join(tokens)
RECURSIVE str_join(_)
str_join(tokens) ==
    IF tokens = <<>> THEN <<>>
    ELSE IF Len(tokens) = 1 THEN tokens[1]
    ELSE tokens[1] \o SEP \o str_join(Tail(tokens))

\* the order of Python strings: by code point, a proper prefix first
RECURSIVE str_less(_, _)
str_less(a, b) ==
    IF b = <<>> THEN FALSE
    ELSE IF a = <<>> THEN TRUE
    ELSE IF a[1] # b[1] THEN a[1] < b[1]
    ELSE str_less(Tail(a), Tail(b))

\* the tokens in descending order
RECURSIVE sorted_strs_unsorted(_)
sorted_strs_unsorted(set) ==
    IF set = {} THEN <<>>
    ELSE LET x == CHOOSE y \in set : \A z \in set : z = y \/ str_less(z, y)
         IN  <<x>> \o sorted_strs_unsorted(set \ {x})

\* sorted(a) of a set of strings
RECURSIVE sorted_strs(_)
sorted_strs(set) ==
    IF set = {} THEN <<>>
    ELSE LET x == CHOOSE y \in set : \A z \in set : z = y \/ str_less(y, z)
         IN  <<x>> \o sorted_strs(set \ {x})

\* utilities.py:45 on one cell
split_to_set_str(str) == Range(str_split(str))

\* cowinner.py:119-120 on one cell
join_sorted_str(a) == str_join(sorted_strs(a))

\* the lists that hold every token of the set, some of them twice
TokenLists(set) ==
    {l \in UNION {[1..n -> set] : n \in 1..(Cardinality(set) + 1)} :
        Range(l) = set}

SSplit ==
    /\ spc = "split"
    /\ s_set' = split_to_set_str(s_in)
    /\ spc' = "join"
    /\ UNCHANGED <<s_in, s_out, s_again, s_other>>
    /\ UNCHANGED <<mergeVars, fdrVars, cfgVars, quantVars, normVars, poolVars, tabVars, redVars, grpVars, nmVars, stgVars>>

SJoin ==
    /\ spc = "join"
    /\ s_out' = join_sorted_str(s_set)
    /\ spc' = "again"
    /\ UNCHANGED <<s_in, s_set, s_again, s_other>>
    /\ UNCHANGED <<mergeVars, fdrVars, cfgVars, quantVars, normVars, poolVars, tabVars, redVars, grpVars, nmVars, stgVars>>

\* the written string is split and joined once more
SAgain ==
    /\ spc = "again"
    /\ s_again' = join_sorted_str(split_to_set_str(s_out))
    /\ spc' = "other"
    /\ UNCHANGED <<s_in, s_set, s_out, s_other>>
    /\ UNCHANGED <<mergeVars, fdrVars, cfgVars, quantVars, normVars, poolVars, tabVars, redVars, grpVars, nmVars, stgVars>>

\* a string with the same tokens, in any order and with repetitions
SOther ==
    /\ spc = "other"
    /\ \E l \in TokenLists(s_set) :
          s_other' = [input |-> str_join(l),
                      output |-> join_sorted_str(split_to_set_str(str_join(l)))]
    /\ spc' = "done"
    /\ UNCHANGED <<s_in, s_set, s_out, s_again>>
    /\ UNCHANGED <<mergeVars, fdrVars, cfgVars, quantVars, normVars, poolVars, tabVars, redVars, grpVars, nmVars, stgVars>>

InitStr ==
    /\ s_in \in Strings
    /\ s_set = {}
    /\ s_out = <<>>
    /\ s_again = <<>>
    /\ s_other = <<>>
    /\ spc = "split"
    /\ dir = <<>>
    /\ mpc = "off"
    /\ InitMergeIdle
    /\ InitFdrIdle
    /\ InitCfgIdle
    /\ InitQuantIdle
    /\ InitNormIdle
    /\ InitPoolIdle
    /\ InitTabIdle
    /\ InitRedIdle
    /\ InitGrpIdle
    /\ InitNmIdle
    /\ InitStgIdle

NextStr ==
    \/ SSplit
    \/ SJoin
    \/ SAgain
    \/ SOther

SpecStr == InitStr /\ [][NextStr]_vars

\* str has the separator at position i
HasSepAt(str, i) == i < Len(str) /\ str[i] = SEP[1] /\ str[i + 1] = SEP[2]
NoSep(str) == \A i \in 1..Len(str) : ~HasSepAt(str, i)

\* tokens is the list of the '; '-delimited tokens of str
IsTokenList(tokens, str) ==
    /\ str_join(tokens) = str
    /\ \A k \in DOMAIN tokens : NoSep(tokens[k])

\* C14: splitting a non-empty '; '-delimited string into a set and joining
\* the set in sorted order gives the alphabetically sorted list of the
\* distinct tokens of the input; a second round trip returns the same
\* string, and two inputs with the same tokens give the same string.
C14_RoundTrip ==
    /\ spc \in {"again", "other", "done"} =>
          LET toks == str_split(s_out)
          IN  /\ IsTokenList(str_split(s_in), s_in)
              /\ IsTokenList(toks, s_out)
              /\ Range(toks) = Range(str_split(s_in))
              /\ \A j, k \in DOMAIN toks : j < k => str_less(toks[j], toks[k])
    /\ spc \in {"other", "done"} => s_again = s_out
    /\ spc = "done" =>
          /\ Range(str_split(s_other.input)) = Range(str_split(s_in))
          /\ s_other.output = s_out

\* the input "B; A", written as "A; B", and a second input with the same
\* tokens
C14_Witness ==
    /\ spc = "done"
    /\ s_in = <<66, 59, 32, 65>>
    /\ s_out = <<65, 59, 32, 66>>
    /\ s_other.input # s_in
    /\ s_other.output = s_out

-----------------------------------------------------------------------------
(* quantitation.py:417-434: Quantifier._generate_fdr_df                     *)

\* bound: number of rows of the peptide table
MaxFdrPeptides == 4

\* Accessions strings of peptide rows; the order of the integers is the
\* order of the strings
PeptideAccessions == {1, 2, 3}
\* values of the %Err column
ErrValues == {10, 20}

\* the distinct values of a column in ascending order (groupby, sort=True)
group_keys_sorted(values) == sorted(Range(values))

\* the distinct values of a column in the order of their first occurrence
\* (groupby, sort=False)
RECURSIVE group_keys_ordered(_, _)
group_keys_ordered(values, seen) ==
    IF values = <<>> THEN <<>>
    ELSE IF Head(values) \in seen THEN group_keys_ordered(Tail(values), seen)
    ELSE <<Head(values)>>
            \o group_keys_ordered(Tail(values), seen \cup {Head(values)})

accessions_of(df) == [k \in DOMAIN df |-> df[k].Accessions]

group_count(df, acc) == Cardinality({k \in DOMAIN df : df[k].Accessions = acc})

\* value_counts, which orders the groups by its hash table; here ascending
ordered_value_counts_hashed(df) ==
    LET keys == group_keys_sorted(accessions_of(df))
    IN  [k \in DOMAIN keys |->
           [Accessions |-> keys[k], num_spectra |-> group_count(df, keys[k])]]

\* utilities.py:26-37: series.groupby(series, sort=False).count(), renamed
\* and with the index as a column
ordered_value_counts(df) ==
    LET keys == group_keys_ordered(accessions_of(df), {})
    IN  [k \in DOMAIN keys |->
           [Accessions |-> keys[k], num_spectra |-> group_count(df, keys[k])]]

\* the sum of column 1/%Err over the rows of one Accessions value
RECURSIVE group_sum(_, _)
group_sum(df, acc) ==
    IF df = <<>> THEN Rat(0, 1)
    ELSE IF Head(df).Accessions = acc
         THEN RatAdd(Head(df).err_reciprocal, group_sum(Tail(df), acc))
         ELSE group_sum(Tail(df), acc)

\* quantitation.py:603-607: groupby(Accessions) with the default sort=True,
\* sum, reset_index
grouped_sums(df) ==
    LET keys == group_keys_sorted(accessions_of(df))
    IN  [k \in DOMAIN keys |->
           [Accessions |-> keys[k], sum |-> group_sum(df, keys[k])]]

\* quantitation.py:608: target_df.merge(res, on="Accessions"), an inner join
\* that keeps the order of the left keys; the keys of res are unique
RECURSIVE merge_on_accessions(_, _)
merge_on_accessions(target_df, res) ==
    IF target_df = <<>> THEN <<>>
    ELSE LET row == Head(target_df)
             hits == SelectSeq(res, LAMBDA r : r.Accessions = row.Accessions)
         IN  [k \in DOMAIN hits |->
                [Accessions |-> row.Accessions,
                 num_spectra |-> row.num_spectra,
                 sum_err_reciprocal |-> hits[k].sum]]
             \o merge_on_accessions(Tail(target_df), res)

\* quantitation.py:430-431
TValueCounts ==
    /\ tpc = "count"
    /\ fdr_df' = ordered_value_counts(t_peptide)
    /\ tpc' = "sum"
    /\ UNCHANGED <<t_peptide, t_res, t_protein, t_min_option>>
    /\ UNCHANGED <<mergeVars, fdrVars, cfgVars, quantVars, normVars, poolVars, strVars, redVars, grpVars, nmVars, stgVars>>

\* quantitation.py:432, 635-651, 582-608: _sum_error_reciprocal
TSumErrReciprocal ==
    /\ tpc = "sum"
    /\ t_res' = grouped_sums(t_peptide)
    /\ fdr_df' = merge_on_accessions(fdr_df, grouped_sums(t_peptide))
    /\ tpc' = "weight"
    /\ UNCHANGED <<t_peptide, t_protein, t_min_option>>
    /\ UNCHANGED <<mergeVars, fdrVars, cfgVars, quantVars, normVars, poolVars, strVars, redVars, grpVars, nmVars, stgVars>>

\* quantitation.py:433-434, 653-666: No. of spectra / Sum of (1/%Err)
TSpectralWeight ==
    /\ tpc = "weight"
    /\ fdr_df' = [k \in DOMAIN fdr_df |->
                    [Accessions |-> fdr_df[k].Accessions,
                     num_spectra |-> fdr_df[k].num_spectra,
                     sum_err_reciprocal |-> fdr_df[k].sum_err_reciprocal,
                     spectral_weight |->
                        RatDiv(Rat(fdr_df[k].num_spectra, 1),
                               fdr_df[k].sum_err_reciprocal)]]
    /\ tpc' = "done"
    /\ UNCHANGED <<t_peptide, t_res, t_protein, t_min_option>>
    /\ UNCHANGED <<mergeVars, fdrVars, cfgVars, quantVars, normVars, poolVars, strVars, redVars, grpVars, nmVars, stgVars>>

\* values of the column ln(ratio) of the peptide table
LnRatioValues == {1, 2}
\* the pairs of %Err and ln(ratio) a peptide row is given
PeptideMeasurements == (ErrValues \X LnRatioValues) \ {<<20, 2>>}
\* the option MinimumNumberOfSpectra: not configured, or configured as 2
MinSpectraOptions == {<<>>, <<2>>}

\* the default alone, whatever is configured
min_num_spectra_unconfigured(option) == 4

\* quantify_config.py:159-166: self._config.get(..., 4)
min_num_spectra(option) == IF option = <<>> THEN 4 ELSE option[1]

\* the positions of the left rows in the result of an inner merge that
\* keeps the rows in the order of the left table
inner_join_left_order(left_keys, right_keys) ==
    SelectSeq([k \in DOMAIN left_keys |-> k],
              LAMBDA k : left_keys[k] \in Range(right_keys))

\* the positions of the left rows in the result of an inner merge that
\* puts the rows of one key together, the keys in the order of their first
\* occurrence in the left table
RECURSIVE inner_join_grouped(_, _, _)
inner_join_grouped(keys, left_keys, right_keys) ==
    IF keys = <<>> THEN <<>>
    ELSE (IF Head(keys) \in Range(right_keys)
          THEN SelectSeq([k \in DOMAIN left_keys |-> k],
                         LAMBDA k : left_keys[k] = Head(keys))
          ELSE <<>>) \o inner_join_grouped(Tail(keys), left_keys, right_keys)

\* DataFrame.merge(on="Accessions") with unique right keys: the order of
\* the result rows depends on the pandas release, which the repository
\* does not pin
InnerJoinOrders(left_keys, right_keys) ==
    {inner_join_left_order(left_keys, right_keys),
     inner_join_grouped(group_keys_ordered(left_keys, {}), left_keys,
                        right_keys)}

\* the row of a table with unique Accessions that has the value acc
row_of(df, acc) == df[CHOOSE k \in DOMAIN df : df[k].Accessions = acc]

\* quantitation.py:671-686: the product of two columns is taken label by
\* label; labels[k] is the index label of row k of pep_df, the merged
\* frame is labelled 0, 1, ... in the order of its rows; a label without
\* partner gives NaN
_calculate_normalized_weight(pep_df, labels, fdr, order) ==
    [k \in DOMAIN pep_df |->
        IF labels[k] + 1 \in DOMAIN order
        THEN LET partner == pep_df[order[labels[k] + 1]]
             IN  RatMul(pep_df[k].err_reciprocal,
                        row_of(fdr, partner.Accessions).spectral_weight)
        ELSE NaN]

\* quantitation.py:366-384, 246
TUpdatePeptide ==
    /\ tpc = "done"
    /\ \E order \in InnerJoinOrders(accessions_of(t_peptide),
                                     accessions_of(fdr_df)) :
          LET labels == [k \in DOMAIN t_peptide |-> k - 1]
              w == _calculate_normalized_weight(t_peptide, labels, fdr_df, order)
          IN  t_peptide' =
                [k \in DOMAIN t_peptide |->
                   [Accessions |-> t_peptide[k].Accessions,
                    err_reciprocal |-> t_peptide[k].err_reciprocal,
                    ln_ratio |-> t_peptide[k].ln_ratio,
                    norm_weight |-> w[k],
                    wx |-> RatMul(Rat(t_peptide[k].ln_ratio, 1), w[k])]]
    /\ tpc' = "updated"
    /\ UNCHANGED <<t_res, fdr_df, t_protein, t_min_option>>
    /\ UNCHANGED <<mergeVars, fdrVars, cfgVars, quantVars, normVars, poolVars, strVars, redVars, grpVars, nmVars, stgVars>>

\* the sum of a column over the rows of one Accessions value
RECURSIVE column_group_sum(_, _, _)
column_group_sum(df, acc, col) ==
    IF df = <<>> THEN Rat(0, 1)
    ELSE IF Head(df).Accessions = acc
         THEN RatAdd(Head(df)[col], column_group_sum(Tail(df), acc, col))
         ELSE column_group_sum(Tail(df), acc, col)

\* quantitation.py:610-633, 582-608: the grouped sums of a column of the
\* peptide table merged into the rows of the target table
_sum_col_merge(pep_df, target_df, col) ==
    LET hits == SelectSeq(target_df,
                          LAMBDA r : \E k \in DOMAIN pep_df :
                                        pep_df[k].Accessions = r.Accessions)
    IN  [k \in DOMAIN hits |->
           column_group_sum(pep_df, hits[k].Accessions, col)]

\* quantitation.py:439-465, 248: the rows of the FDR table with enough
\* spectra, with the sums of wx and of the normalized weight; the option
\* is read from the configuration here (quantitation.py:457)
TSetupProtein ==
    /\ tpc = "updated"
    /\ t_min_option' \in MinSpectraOptions
    /\ LET kept == SelectSeq(fdr_df, LAMBDA r :
                       r.num_spectra >= min_num_spectra(t_min_option'))
           sum_wx == _sum_col_merge(t_peptide, kept, "wx")
           sum_nw == _sum_col_merge(t_peptide, kept, "norm_weight")
       IN  t_protein' =
             [k \in DOMAIN kept |->
                [Accessions |-> kept[k].Accessions,
                 num_spectra |-> kept[k].num_spectra,
                 sum_wx |-> sum_wx[k],
                 sum_norm_weight |-> sum_nw[k],
                 weighted_avg |-> RatDiv(sum_wx[k], sum_nw[k])]]
    /\ tpc' = "protein"
    /\ UNCHANGED <<t_peptide, t_res, fdr_df>>
    /\ UNCHANGED <<mergeVars, fdrVars, cfgVars, quantVars, normVars, poolVars, strVars, redVars, grpVars, nmVars, stgVars>>

\* the peptide table made by _setup_peptide_df (quantitation.py:241-242)
InitTab ==
    /\ \E n \in 0..MaxFdrPeptides :
          \E f \in [1..n -> PeptideAccessions \X PeptideMeasurements] :
             t_peptide = [k \in 1..n |->
                            [Accessions |-> f[k][1],
                             err_reciprocal |-> Rat(1, f[k][2][1]),
                             ln_ratio |-> f[k][2][2]]]
    /\ t_res = <<>>
    /\ fdr_df = <<>>
    /\ t_protein = <<>>
    /\ t_min_option = <<>>
    /\ tpc = "count"
    /\ dir = <<>>
    /\ mpc = "off"
    /\ InitMergeIdle
    /\ InitFdrIdle
    /\ InitCfgIdle
    /\ InitQuantIdle
    /\ InitNormIdle
    /\ InitPoolIdle
    /\ InitStrIdle
    /\ InitRedIdle
    /\ InitGrpIdle
    /\ InitNmIdle
    /\ InitStgIdle

NextTab ==
    \/ TValueCounts
    \/ TSumErrReciprocal
    \/ TSpectralWeight
    \/ TUpdatePeptide
    \/ TSetupProtein

SpecTab == InitTab /\ [][NextTab]_vars

\* position of the first peptide row with the Accessions value acc
FirstRowOf(acc) ==
    CHOOSE k \in DOMAIN t_peptide :
        /\ t_peptide[k].Accessions = acc
        /\ \A j \in 1..(k - 1) : t_peptide[j].Accessions # acc

\* C15: the FDR table has exactly one row per distinct Accessions string of
\* the peptide rows, its spectrum count is the number of peptide rows with
\* that string, and its rows are in the order in which the strings first
\* occur in the peptide table, also after the sum of reciprocal errors has
\* been merged in.
C15_FdrTableOrder ==
    tpc \in {"sum", "weight", "done"} =>
        /\ {fdr_df[k].Accessions : k \in DOMAIN fdr_df}
              = {t_peptide[k].Accessions : k \in DOMAIN t_peptide}
        /\ \A j, k \in DOMAIN fdr_df :
              j # k => fdr_df[j].Accessions # fdr_df[k].Accessions
        /\ \A k \in DOMAIN fdr_df :
              fdr_df[k].num_spectra =
                 Cardinality({i \in DOMAIN t_peptide :
                                t_peptide[i].Accessions = fdr_df[k].Accessions})
        /\ \A j, k \in DOMAIN fdr_df :
              j < k => FirstRowOf(fdr_df[j].Accessions)
                          < FirstRowOf(fdr_df[k].Accessions)

\* peptide rows with the strings 2, 1, 2: the FDR table lists 2 before 1
\* after the sums, which are computed in ascending order, have been merged
C15_Witness ==
    /\ tpc = "done"
    /\ accessions_of(t_peptide) = <<2, 1, 2>>
    /\ accessions_of(t_res) = <<1, 2>>
    /\ accessions_of(fdr_df) = <<2, 1>>
    /\ fdr_df[1].num_spectra = 2

-----------------------------------------------------------------------------
(* cowinner.py:154-191: join_top_accessions and reduce_df                   *)

\* bound: number of rows of the ProteinSummary table
MaxReduceRows == 3

\* values of the columns N, Total and Accession; the order of the integers
\* of Accession is the order of the strings
SummaryNs == {1, 2, 3}
SummaryTotals == {1, 2}
SummaryAccessions == {1, 2}
\* values of the FDR count
MaxNs == {1, 2}

\* the rows of a group that carry the index label 0
rows_labelled_0(group) == SelectSeq(group, LAMBDA r : r.label = 0)

\* cowinner.py:167-168: df.Total[0] looks up the index label 0 in the group,
\* whose rows keep the labels of the table that was read; the joined string
\* lists the accessions of the rows with that Total in ascending order
join_top_accessions(group) ==
    IF rows_labelled_0(group) = <<>> THEN Raised("KeyError")
    ELSE LET total_0 == rows_labelled_0(group)[1].Total
             top == SelectSeq(group, LAMBDA r : r.Total = total_0)
         IN  Returned(list_sort([k \in DOMAIN top |-> top[k].Accession]))

\* cowinner.py:186
filter_max_n(df, max_n) == SelectSeq(df, LAMBDA r : r.N <= max_n)

\* cowinner.py:187-188: drop_duplicates("N", keep="first"), reset_index
RECURSIVE drop_duplicates_N(_, _)
drop_duplicates_N(df, seen) ==
    IF df = <<>> THEN <<>>
    ELSE IF Head(df).N \in seen THEN drop_duplicates_N(Tail(df), seen)
    ELSE <<Head(df)>> \o drop_duplicates_N(Tail(df), seen \cup {Head(df).N})

\* cowinner.py:189-190: groupby("N") orders the groups by ascending N and
\* applies join_top_accessions to each; reset_index numbers the results
\* 0, 1, ... in that order
grouped_accessions(df) ==
    LET keys == sorted({df[k].N : k \in DOMAIN df})
    IN  [g \in DOMAIN keys |->
           join_top_accessions(SelectSeq(df, LAMBDA r : r.N = keys[g]))]

\* cowinner.py:186
RFilter ==
    /\ rpc = "filter"
    /\ r_df' = filter_max_n(r_in, r_max_n)
    /\ rpc' = "dedup"
    /\ UNCHANGED <<r_in, r_max_n, r_dedup, r_out>>
    /\ UNCHANGED <<mergeVars, fdrVars, cfgVars, quantVars, normVars, poolVars, strVars, tabVars, grpVars, nmVars, stgVars>>

\* cowinner.py:187-188
RDropDuplicates ==
    /\ rpc = "dedup"
    /\ r_dedup' = drop_duplicates_N(r_df, {})
    /\ rpc' = "join"
    /\ UNCHANGED <<r_in, r_df, r_max_n, r_out>>
    /\ UNCHANGED <<mergeVars, fdrVars, cfgVars, quantVars, normVars, poolVars, strVars, tabVars, grpVars, nmVars, stgVars>>

\* cowinner.py:189-191: the error of a group ends the call; an empty table
\* gives a frame without the column 0; otherwise the joined strings are
\* assigned to dedup_df by position
RJoinAccessions ==
    /\ rpc = "join"
    /\ LET joined == grouped_accessions(r_df)
       IN  IF r_df = <<>> \/ \E g \in DOMAIN joined : joined[g].kind = "raise"
           THEN /\ r_out' = Raised("KeyError")
                /\ rpc' = "raised"
           ELSE /\ r_out' = Returned(
                      [k \in DOMAIN r_dedup |->
                         [N |-> r_dedup[k].N, Total |-> r_dedup[k].Total,
                          label |-> r_dedup[k].label,
                          Accession |-> joined[k].value]])
                /\ rpc' = "done"
    /\ UNCHANGED <<r_in, r_df, r_max_n, r_dedup>>
    /\ UNCHANGED <<mergeVars, fdrVars, cfgVars, quantVars, normVars, poolVars, strVars, tabVars, grpVars, nmVars, stgVars>>

\* a table as read_tsv returns it: the rows are labelled 0, 1, ...
InitRed ==
    /\ \E n \in 1..MaxReduceRows :
          \E f \in [1..n -> SummaryNs \X SummaryTotals \X SummaryAccessions] :
             r_in = [k \in 1..n |->
                       [label |-> k - 1, N |-> f[k][1], Total |-> f[k][2],
                        Accession |-> f[k][3]]]
    /\ r_df = <<>>
    /\ r_max_n \in MaxNs
    /\ r_dedup = <<>>
    /\ r_out = NoCall
    /\ rpc = "filter"
    /\ dir = <<>>
    /\ mpc = "off"
    /\ InitMergeIdle
    /\ InitFdrIdle
    /\ InitCfgIdle
    /\ InitQuantIdle
    /\ InitNormIdle
    /\ InitPoolIdle
    /\ InitStrIdle
    /\ InitTabIdle
    /\ InitGrpIdle
    /\ InitNmIdle
    /\ InitStgIdle

NextRed ==
    \/ RFilter
    \/ RDropDuplicates
    \/ RJoinAccessions

SpecRed == InitRed /\ [][NextRed]_vars

\* the rows of the input with N = n and N <= max_n, in input order
GroupRows(n) == SelectSeq(r_in, LAMBDA r : r.N = n /\ r.N <= r_max_n)

\* the values of N that reduce_df has to report
KeptNs == {r_in[k].N : k \in {k2 \in DOMAIN r_in : r_in[k2].N <= r_max_n}}

\* position in the input of the first row with N = n
FirstOfN(n) == Min({k \in DOMAIN r_in : r_in[k].N = n})

\* C21: reduce_df emits exactly one row for each distinct N <= max_n and no
\* row with N > max_n; the row of a group is the first row of the group in
\* input order with its columns other than Accession unchanged, and the rows
\* keep the order in which their N first occurs in the input.
C21_OneRowPerN ==
    rpc \in {"done", "raised"} =>
        /\ r_out.kind = "return"
        /\ LET out == r_out.value
           IN  /\ {out[k].N : k \in DOMAIN out} = KeptNs
               /\ Len(out) = Cardinality(KeptNs)
               /\ \A k \in DOMAIN out :
                     /\ out[k].label = r_in[FirstOfN(out[k].N)].label
                     /\ out[k].Total = r_in[FirstOfN(out[k].N)].Total
               /\ \A j, k \in DOMAIN out :
                     j < k => FirstOfN(out[j].N) < FirstOfN(out[k].N)

\* the rows of a group whose Total is that of the first row of the group
TopRows(n) ==
    SelectSeq(GroupRows(n), LAMBDA r : r.Total = GroupRows(n)[1].Total)

\* C22: whatever the order of the N values in the rows, the Accession of the
\* reduced row of group N is the sorted join of the accessions of exactly
\* the rows of that group whose Total equals the Total of the first row of
\* the group; accessions of one group are never attached to the row of
\* another.
C22_TopAccessionsOfOwnGroup ==
    rpc \in {"done", "raised"} =>
        \A n \in KeptNs :
            /\ r_out.kind = "return"
            /\ \E k \in DOMAIN r_out.value :
                  /\ r_out.value[k].N = n
                  /\ r_out.value[k].Accession =
                        list_sort([i \in DOMAIN TopRows(n) |->
                                     TopRows(n)[i].Accession])

\* every call that returns, returns what C21 and C22 describe
ReduceReturnsAsClaimed ==
    rpc = "done" =>
        /\ C21_OneRowPerN
        /\ C22_TopAccessionsOfOwnGroup

\* reduce_df returns exactly for the tables whose rows with N <= max_n all
\* have the N of the row labelled 0
ReduceReturnsIff ==
    rpc \in {"done", "raised"} =>
        (rpc = "done" <=> (KeptNs # {} /\ KeptNs = {r_in[1].N}))

\* the rows of dedup_df are in the order of the groups of groupby("N"), so
\* that the assignment by position gives each row the string of its group
DedupOrderIsGroupOrder ==
    rpc = "join" =>
        [k \in DOMAIN r_dedup |-> r_dedup[k].N]
            = sorted({r_df[k].N : k \in DOMAIN r_df})

\* the spectral weight the FDR table holds for an Accessions value
SpectralWeightOf(acc) == row_of(fdr_df, acc).spectral_weight

\* C24 (per-file run): the normalized weight of every peptide row is the
\* row's own 1/%Err multiplied by the spectral weight of the FDR-table row
\* with the same Accessions string, for every order of the peptide rows.
C24_OwnSpectralWeight ==
    tpc \in {"updated", "protein"} =>
        \A k \in DOMAIN t_peptide :
            t_peptide[k].norm_weight =
                RatMul(t_peptide[k].err_reciprocal,
                       SpectralWeightOf(t_peptide[k].Accessions))

\* the rows of one Accessions value follow each other in the peptide table
Contiguous(df) ==
    \A i, j, k \in DOMAIN df :
        (i < j /\ j < k /\ df[i].Accessions = df[k].Accessions)
            => df[j].Accessions = df[i].Accessions

\* the weights are right for every peptide table whose rows of one
\* Accessions value follow each other
C24_HoldsForContiguousRows ==
    (tpc \in {"updated", "protein"} /\ Contiguous(t_peptide)) =>
        C24_OwnSpectralWeight

\* the peptide rows with a given Accessions value
PeptideRowsOf(acc) ==
    {k \in DOMAIN t_peptide : t_peptide[k].Accessions = acc}

\* the sum of a column over a set of peptide rows
RECURSIVE SumOver(_, _)
SumOver(rows, col) ==
    IF rows = {} THEN Rat(0, 1)
    ELSE LET k == CHOOSE x \in rows : TRUE
         IN  RatAdd(t_peptide[k][col], SumOver(rows \ {k}, col))

\* C25: the protein table has exactly one row for each Accessions value
\* whose spectrum count in the FDR table is at least the configured minimum
\* (4 when not configured) and no other row; its sum of wx and its sum of
\* normalized weight are taken over exactly the peptide rows with that
\* Accessions value.
C25_ProteinRows ==
    tpc = "protein" =>
        /\ {t_protein[k].Accessions : k \in DOMAIN t_protein}
              = {fdr_df[k].Accessions :
                   k \in {k2 \in DOMAIN fdr_df :
                            fdr_df[k2].num_spectra
                               >= (IF t_min_option = <<>>
                                   THEN 4 ELSE t_min_option[1])}}
        /\ \A j, k \in DOMAIN t_protein :
              j # k => t_protein[j].Accessions # t_protein[k].Accessions
        /\ \A k \in DOMAIN t_protein :
              /\ t_protein[k].sum_wx
                    = SumOver(PeptideRowsOf(t_protein[k].Accessions), "wx")
              /\ t_protein[k].sum_norm_weight
                    = SumOver(PeptideRowsOf(t_protein[k].Accessions),
                              "norm_weight")

\* four peptide rows, three of one Accessions value: with the configured
\* minimum of 2 the protein table has that value only
C25_Witness ==
    /\ tpc = "protein"
    /\ t_min_option = <<2>>
    /\ accessions_of(t_peptide) = <<2, 1, 2, 2>>
    /\ accessions_of(fdr_df) = <<2, 1>>
    /\ accessions_of(t_protein) = <<2>>
    /\ t_protein[1].num_spectra = 3

\* the default minimum of 4 spectra, met by one Accessions value
C25_WitnessDefault ==
    /\ tpc = "protein"
    /\ t_min_option = <<>>
    /\ Len(t_protein) = 1

-----------------------------------------------------------------------------
(* quantitation.py:70-89, 262-311: replace_accessions and the group run     *)

\* bound: number of pooled peptide rows
MaxPooledRows == 3

\* the accessions of the peptide rows and of the clusters
GroupTokens == {1, 2, 3}
\* file identifiers of the configured PeptideSummary files
Expts == {1, 2}

\* merged.csv as CoWinner.merge writes it: clusters without a common
\* accession, and the two clusters "P1; P3" and "P1; P2; P3" that the sweep
\* leaves for the rows P1 / P2 / P1; P3 / P2; P3
ClusterTables ==
    {<< <<1, 2>> >>, << <<1>>, <<2, 3>> >>, << <<2, 3>>, <<1>> >>,
     << <<1, 3>>, <<1, 2, 3>> >>}

\* a joined Accession string as a number with the order of the strings:
\* "P1" 100, "P1; P2" 120, "P1; P2; P3" 123, "P2" 200, ...
joined_code(tokens) ==
    (IF Len(tokens) >= 1 THEN 100 * tokens[1] ELSE 0)
      + (IF Len(tokens) >= 2 THEN 10 * tokens[2] ELSE 0)
      + (IF Len(tokens) >= 3 THEN tokens[3] ELSE 0)

\* quantitation.py:83-84: one row per accession of every cluster, in the
\* order of the clusters
RECURSIVE explode(_, _)
explode(clusters, c) ==
    IF c > Len(clusters) THEN <<>>
    ELSE [k \in DOMAIN clusters[c] |-> [cluster |-> c, token |-> clusters[c][k]]]
         \o explode(clusters, c + 1)

\* the pairs (left row, right row) of one left row of an inner merge
pairs_of_row(p, key, right) ==
    LET hits == SelectSeq([t \in DOMAIN right |-> t],
                          LAMBDA t : right[t].token = key)
    IN  [k \in DOMAIN hits |-> <<p, hits[k]>>]

\* the pairs of the left rows listed in rows, in that order
RECURSIVE pairs_of_rows(_, _, _)
pairs_of_rows(rows, left_keys, right) ==
    IF rows = <<>> THEN <<>>
    ELSE pairs_of_row(Head(rows), left_keys[Head(rows)], right)
         \o pairs_of_rows(Tail(rows), left_keys, right)

\* DataFrame.merge(on="Accessions"), an inner merge, in the two row orders
\* pandas releases give it
MergePairOrders(left_keys, right) ==
    LET right_keys == [t \in DOMAIN right |-> right[t].token]
    IN  {pairs_of_rows(order, left_keys, right) :
            order \in InnerJoinOrders(left_keys, right_keys)}

\* sort_values(["Expt", "N"]): a stable sort that keeps the index labels
RECURSIVE sort_by_expt_n(_)
sort_by_expt_n(df) ==
    IF df = <<>> THEN <<>>
    ELSE LET rest == sort_by_expt_n(Tail(df))
             x == Head(df)
             key(r) == 10 * r.Expt + r.N
             lo == SelectSeq(rest, LAMBDA y : key(y) < key(x))
             hi == SelectSeq(rest, LAMBDA y : ~(key(y) < key(x)))
         IN  lo \o <<x>> \o hi

\* quantitation.py:70-89 for one row order of the merge; src is the
\* position the row had in the pooled table
replace_accessions(pooled_df, clusters, pairs) ==
    sort_by_expt_n(
        [k \in DOMAIN pairs |->
           [label |-> k - 1,
            src |-> pairs[k][1],
            Expt |-> pooled_df[pairs[k][1]].Expt,
            N |-> pooled_df[pairs[k][1]].N,
            err_reciprocal |-> pooled_df[pairs[k][1]].err_reciprocal,
            Accessions |->
               joined_code(clusters[explode(clusters, 1)[pairs[k][2]].cluster])]])

\* sort_values("Accessions") of the FDR table
RECURSIVE sort_by_accessions(_)
sort_by_accessions(df) ==
    IF df = <<>> THEN <<>>
    ELSE LET rest == sort_by_accessions(Tail(df))
             x == Head(df)
             lo == SelectSeq(rest, LAMBDA y : y.Accessions < x.Accessions)
             hi == SelectSeq(rest, LAMBDA y : ~(y.Accessions < x.Accessions))
         IN  lo \o <<x>> \o hi

\* quantitation.py:417-434
_generate_fdr_df(pep_df) ==
    LET counted == merge_on_accessions(ordered_value_counts(pep_df),
                                       grouped_sums(pep_df))
    IN  [k \in DOMAIN counted |->
           [Accessions |-> counted[k].Accessions,
            num_spectra |-> counted[k].num_spectra,
            sum_err_reciprocal |-> counted[k].sum_err_reciprocal,
            spectral_weight |->
               RatDiv(Rat(counted[k].num_spectra, 1),
                      counted[k].sum_err_reciprocal)]]

\* quantitation.py:284
GReplaceAccessions ==
    /\ gpc = "replace"
    /\ \E pairs \in MergePairOrders(
                      [k \in DOMAIN g_pooled |-> g_pooled[k].Accessions],
                      explode(g_clusters, 1)) :
          g_peptide' = replace_accessions(g_pooled, g_clusters, pairs)
    /\ gpc' = "fdr"
    /\ UNCHANGED <<g_pooled, g_clusters, g_fdr>>
    /\ UNCHANGED <<mergeVars, fdrVars, cfgVars, quantVars, normVars, poolVars, strVars, tabVars, redVars, nmVars, stgVars>>

\* quantitation.py:286-287
GGenerateFdr ==
    /\ gpc = "fdr"
    /\ g_fdr' = sort_by_accessions(_generate_fdr_df(g_peptide))
    /\ gpc' = "weight"
    /\ UNCHANGED <<g_pooled, g_clusters, g_peptide>>
    /\ UNCHANGED <<mergeVars, fdrVars, cfgVars, quantVars, normVars, poolVars, strVars, tabVars, redVars, nmVars, stgVars>>

\* quantitation.py:289-290: the weights are assigned label by label
GNormalizedWeight ==
    /\ gpc = "weight"
    /\ \E order \in InnerJoinOrders(accessions_of(g_peptide),
                                     accessions_of(g_fdr)) :
          LET labels == [k \in DOMAIN g_peptide |-> g_peptide[k].label]
              w == _calculate_normalized_weight(g_peptide, labels, g_fdr, order)
          IN  g_peptide' =
                [k \in DOMAIN g_peptide |->
                   [label |-> g_peptide[k].label,
                    src |-> g_peptide[k].src,
                    Expt |-> g_peptide[k].Expt,
                    N |-> g_peptide[k].N,
                    err_reciprocal |-> g_peptide[k].err_reciprocal,
                    Accessions |-> g_peptide[k].Accessions,
                    norm_weight |-> w[k]]]
    /\ gpc' = "done"
    /\ UNCHANGED <<g_pooled, g_clusters, g_fdr>>
    /\ UNCHANGED <<mergeVars, fdrVars, cfgVars, quantVars, normVars, poolVars, strVars, tabVars, redVars, nmVars, stgVars>>

\* the rows of one file follow each other in the pooled table
FileBlocks(f) ==
    \A i, j, k \in DOMAIN f :
        (i < j /\ j < k /\ f[i][1] = f[k][1]) => f[j][1] = f[i][1]

\* quantitation.py:274-277: the Peptide sheets of the configured files,
\* concatenated in the configured order; N is the number of the protein
\* group of the accession in its file
InitGrp ==
    /\ \E n \in 0..MaxPooledRows :
          \E f \in [1..n -> Expts \X GroupTokens \X ErrValues] :
             /\ FileBlocks(f)
             /\ g_pooled = [k \in 1..n |->
                              [Expt |-> f[k][1], N |-> f[k][2],
                               Accessions |-> f[k][2],
                               err_reciprocal |-> Rat(1, f[k][3])]]
    /\ g_clusters \in ClusterTables
    /\ g_peptide = <<>>
    /\ g_fdr = <<>>
    /\ gpc = "replace"
    /\ dir = <<>>
    /\ mpc = "off"
    /\ InitMergeIdle
    /\ InitFdrIdle
    /\ InitCfgIdle
    /\ InitQuantIdle
    /\ InitNormIdle
    /\ InitPoolIdle
    /\ InitStrIdle
    /\ InitTabIdle
    /\ InitRedIdle
    /\ InitNmIdle
    /\ InitStgIdle

NextGrp ==
    \/ GReplaceAccessions
    \/ GGenerateFdr
    \/ GNormalizedWeight

SpecGrp == InitGrp /\ [][NextGrp]_vars

\* the clusters that hold an accession
ClustersOf(token) ==
    {c \in DOMAIN g_clusters : token \in Range(g_clusters[c])}

\* the re-keyed rows that come from the pooled row p
RekeyedFrom(p) == {k \in DOMAIN g_peptide : g_peptide[k].src = p}

\* C26: every pooled peptide row whose accession occurs in the cluster table
\* appears exactly once in the re-keyed table, with its Accessions replaced
\* by the joined string of the cluster holding that accession; no row is
\* duplicated and the re-keyed table has no more rows than the pooled one.
C26_RekeyedOnce ==
    gpc \in {"fdr", "weight", "done"} =>
        /\ Len(g_peptide) <= Len(g_pooled)
        /\ \A p \in DOMAIN g_pooled :
              ClustersOf(g_pooled[p].Accessions) # {} =>
                 /\ Cardinality(RekeyedFrom(p)) = 1
                 /\ \A k \in RekeyedFrom(p) :
                       \E c \in ClustersOf(g_pooled[p].Accessions) :
                          g_peptide[k].Accessions = joined_code(g_clusters[c])

\* for cluster tables without a shared accession the re-keying is as claimed
C26_HoldsForDisjointClusters ==
    (\A c, d \in DOMAIN g_clusters :
        c # d => Range(g_clusters[c]) \cap Range(g_clusters[d]) = {})
    => C26_RekeyedOnce

\* C24 (group run): the normalized weight of every row of the pooled,
\* re-keyed and sorted peptide table is the row's own 1/%Err multiplied by
\* the spectral weight of the FDR-table row with the same Accessions string.
C24_GroupOwnSpectralWeight ==
    gpc = "done" =>
        \A k \in DOMAIN g_peptide :
            g_peptide[k].norm_weight =
                RatMul(g_peptide[k].err_reciprocal,
                       row_of(g_fdr, g_peptide[k].Accessions).spectral_weight)

-----------------------------------------------------------------------------
(* quantitation.py:527-542: Quantifier._add_protein_names                   *)

\* bound: number of items of accession_names_map
MaxMapItems == 2
\* bound: number of accessions in a cell of the Accessions column
MaxCellTokens == 2

\* the accessions "A", "AB" and "B|", and the protein names "x" and "xA"
AccessionIds == {<<65>>, <<65, 66>>, <<66, 124>>}
ProteinNames == {<<120>>, <<120, 65>>}

\* the characters re.escape puts a backslash in front of
SpecialChars == {124}
BACKSLASH == 92

\* re.escape(accession)
RECURSIVE re_escape(_)
re_escape(str) ==
    IF str = <<>> THEN <<>>
    ELSE (IF str[1] \in SpecialChars THEN <<BACKSLASH, str[1]>> ELSE <<str[1]>>)
         \o re_escape(Tail(str))

\* the text a pattern of escaped characters matches
RECURSIVE matched_text(_)
matched_text(pat) ==
    IF pat = <<>> THEN <<>>
    ELSE IF pat[1] = BACKSLASH /\ Len(pat) >= 2
         THEN <<pat[2]>> \o matched_text(Tail(Tail(pat)))
         ELSE <<pat[1]>> \o matched_text(Tail(pat))

\* every occurrence of text, found from the left, replaced by repl
RECURSIVE replace_all(_, _, _)
replace_all(str, text, repl) ==
    IF Len(str) < Len(text) \/ text = <<>> THEN str
    ELSE IF SubSeq(str, 1, Len(text)) = text
         THEN repl \o replace_all(SubSeq(str, Len(text) + 1, Len(str)), text, repl)
         ELSE <<str[1]>> \o replace_all(Tail(str), text, repl)

\* Series.str.replace(pat, repl) on one cell: pat is a regular expression
\* where the default of pandas is regex=True (before 2.0) and literal text
\* where it is regex=False
str_replace(str, pat, repl, regex) ==
    replace_all(str, IF regex THEN matched_text(pat) ELSE pat, repl)

\* quantitation.py:539-541: the loop over accession_names_map.items()
RECURSIVE replace_items(_, _, _)
replace_items(str, items, regex) ==
    IF items = <<>> THEN str
    ELSE replace_items(str_replace(str, re_escape(items[1][1]), items[1][2], regex),
                       Tail(items), regex)

\* quantitation.py:527-542
NAddProteinNames ==
    /\ nmpc = "call"
    /\ \E regex \in BOOLEAN :
          n_names' = replace_items(n_accessions, n_map, regex)
    /\ n_accessions' = n_accessions
    /\ nmpc' = "done"
    /\ UNCHANGED <<n_map, n_cell>>
    /\ UNCHANGED <<mergeVars, fdrVars, cfgVars, quantVars, normVars, poolVars, strVars, tabVars, redVars, grpVars, stgVars>>

\* a dict has every key once
DictItems ==
    {m \in UNION {[1..n -> AccessionIds \X ProteinNames] : n \in 1..MaxMapItems} :
        \A i, j \in DOMAIN m : i # j => m[i][1] # m[j][1]}

\* the tokens of a cell of the Accessions column
CellTokens == UNION {[1..n -> AccessionIds] : n \in 1..MaxCellTokens}

\* the rows of the protein table are replaced one by one: one row
InitNm ==
    /\ n_map \in DictItems
    /\ \E tokens \in CellTokens :
          /\ n_cell = str_join(tokens)
          /\ n_accessions = str_join(tokens)
    /\ n_names = <<>>
    /\ nmpc = "call"
    /\ dir = <<>>
    /\ mpc = "off"
    /\ InitMergeIdle
    /\ InitFdrIdle
    /\ InitCfgIdle
    /\ InitQuantIdle
    /\ InitNormIdle
    /\ InitPoolIdle
    /\ InitStrIdle
    /\ InitTabIdle
    /\ InitRedIdle
    /\ InitGrpIdle
    /\ InitStgIdle

NextNm == NAddProteinNames

SpecNm == InitNm /\ [][NextNm]_vars

\* the protein name the map gives an accession, the accession itself when
\* the map does not hold it
NameOf(token) ==
    IF \E i \in DOMAIN n_map : n_map[i][1] = token
    THEN n_map[CHOOSE i \in DOMAIN n_map : n_map[i][1] = token][2]
    ELSE token

\* C28: Names is the Accessions text with every accession token replaced by
\* the protein name mapped to exactly that accession, whatever the map; the
\* Accessions column is unchanged.
C28_NamesOfTokens ==
    nmpc = "done" =>
        /\ n_names = str_join([k \in DOMAIN str_split(n_cell) |->
                                 NameOf(str_split(n_cell)[k])])
        /\ n_accessions = n_cell

\* the Accessions column is unchanged
C28_AccessionsUnchanged == nmpc = "done" => n_accessions = n_cell

\* a text occurs inside another
OccursIn(text, str) ==
    \E i \in 1..(Len(str) - Len(text) + 1) :
        SubSeq(str, i, i + Len(text) - 1) = text

\* with a map whose accessions are plain text, none inside another
\* accession or inside a protein name, the names are as claimed
C28_HoldsForSeparateAccessions ==
    (/\ \A i \in DOMAIN n_map : re_escape(n_map[i][1]) = n_map[i][1]
     /\ \A i, j \in DOMAIN n_map :
           /\ i # j => ~OccursIn(n_map[i][1], n_map[j][1])
           /\ ~OccursIn(n_map[i][1], n_map[j][2])
     /\ \A k \in DOMAIN str_split(n_cell) :
           \A i \in DOMAIN n_map :
              OccursIn(n_map[i][1], str_split(n_cell)[k])
                 => n_map[i][1] = str_split(n_cell)[k])
    => C28_NamesOfTokens

-----------------------------------------------------------------------------
(* quantitation.py:219-260: the stages of one quantitation run              *)

\* quantitation.py:125-148
ACCESSIONS_COL == "Accessions"
ERR_RECIPROCAL_COL == "1/%Err"
NORM_WEIGHT_COL == "Normalized weight"
WX_COL == "wx"
NEW_LN_RATIO_COL == "new ln ratio"
SUM_ERR_RECIPROCAL_COL == "Sum of (1/%Err)"
PROT_SPECTRAL_WEIGHT_COL == "Protein spectral weight const"
NUM_SPECTRA_COL == "No. of spectra"
SUM_WX_COL == "Sum of wx"
SUM_NORM_WEIGHT_COL == "Sum of normalized weight"
WEIGHTED_AVG_COL == "Weighted average"
EXP_WEIGHTED_AVG_COL == "exp(weighted average)"
NORM_PROTEIN_RATIO_COL == "Normalized protein ratio"
ST_DEV_COL == "Standard deviation"
T_VALUE_UP_COL == "t-value (up)"
P_VALUE_UP_COL == "p-value (up)"
T_VALUE_DOWN_COL == "t-value (down)"
P_VALUE_DOWN_COL == "p-value (down)"

\* a column whose name does not depend on the ratio
col(name) == <<name, "">>
\* f"ln({self._ratio})"
ln_col(ratio) == <<"ln", ratio>>
\* quantitation.py:105-116
normalized_col(ratio) == <<"normalized", ratio>>
\* quantitation.py:92-102
ln_normalized_col(ratio) == <<"ln(normalized)", ratio>>

\* the ratios a run is started for
StageRatios == {"114:113", "115:113"}

\* the columns a PeptideSummary file may hold
SummaryColumns ==
    {col("N"), col("Conf"), col("Used"), col("Unused"), col(ACCESSIONS_COL),
     col("Spectrum")}
      \cup {ratio_col(r) : r \in StageRatios} \cup {err_col(r) : r \in StageRatios}

\* quantitation.py:355-358: the columns _setup_peptide_df selects
PeptideBaseCols(ratio) ==
    {col("N"), col("Unused"), col(ACCESSIONS_COL), col("Spectrum"),
     ratio_col(ratio), err_col(ratio)}

\* the statements of _process_peptide_summary in the order of the code
Stages ==
    <<"read", "filter", "peptide_init", "fdr_table", "peptide_update",
      "protein_init", "factor", "peptide_finalize", "protein_finalize",
      "write">>

\* the peptide table finalized before the factor is computed
next_stage_finalize_first(stage) ==
    CASE stage = "protein_init" -> "peptide_finalize"
      [] stage = "peptide_finalize" -> "factor"
      [] stage = "factor" -> "protein_finalize"
      [] stage = "write" -> "done"
      [] OTHER -> Stages[(CHOOSE k \in DOMAIN Stages : Stages[k] = stage) + 1]

\* the statement that follows a statement
next_stage(stage) ==
    LET k == CHOOSE i \in DOMAIN Stages : Stages[i] = stage
    IN  IF k < Len(Stages) THEN Stages[k + 1] ELSE "done"

\* quantitation.py:233-237: read_tsv and read_fdr_value
StRead ==
    /\ stpc = "read"
    /\ IF st_fdr_ok
       THEN /\ st_log' = Append(st_log, "read")
            /\ stpc' = next_stage("read")
            /\ UNCHANGED <<st_peptide_cols, st_fdr_cols, st_protein_cols, st_factor, st_written>>
       ELSE /\ stpc' = "raised"
            /\ UNCHANGED <<st_log, st_peptide_cols, st_fdr_cols, st_protein_cols, st_factor, st_written>>
    /\ UNCHANGED <<st_ratio, st_summary_cols, st_fdr_ok>>
    /\ UNCHANGED <<mergeVars, fdrVars, cfgVars, quantVars, normVars, poolVars, strVars, tabVars, redVars, grpVars, nmVars>>

\* quantitation.py:239, 326-337: the mask reads N, Conf, Used and the ratio
StFilter ==
    /\ stpc = "filter"
    /\ IF {col("N"), col("Conf"), col("Used"), ratio_col(st_ratio)} \subseteq st_summary_cols
       THEN /\ st_log' = Append(st_log, "filter")
            /\ stpc' = next_stage("filter")
            /\ UNCHANGED <<st_peptide_cols, st_fdr_cols, st_protein_cols, st_factor, st_written>>
       ELSE /\ stpc' = "raised"
            /\ UNCHANGED <<st_log, st_peptide_cols, st_fdr_cols, st_protein_cols, st_factor, st_written>>
    /\ UNCHANGED <<st_ratio, st_summary_cols, st_fdr_ok>>
    /\ UNCHANGED <<mergeVars, fdrVars, cfgVars, quantVars, normVars, poolVars, strVars, tabVars, redVars, grpVars, nmVars>>

\* quantitation.py:241-242, 355-362
StSetupPeptide ==
    /\ stpc = "peptide_init"
    /\ IF PeptideBaseCols(st_ratio) \subseteq st_summary_cols
       THEN /\ st_log' = Append(st_log, "peptide_init")
            /\ stpc' = next_stage("peptide_init")
            /\ st_peptide_cols' = PeptideBaseCols(st_ratio)
                  \cup {ln_col(st_ratio), col(ERR_RECIPROCAL_COL), col("Expt")}
            /\ UNCHANGED <<st_fdr_cols, st_protein_cols, st_factor, st_written>>
       ELSE /\ stpc' = "raised"
            /\ UNCHANGED <<st_log, st_peptide_cols, st_fdr_cols, st_protein_cols, st_factor, st_written>>
    /\ UNCHANGED <<st_ratio, st_summary_cols, st_fdr_ok>>
    /\ UNCHANGED <<mergeVars, fdrVars, cfgVars, quantVars, normVars, poolVars, strVars, tabVars, redVars, grpVars, nmVars>>

\* quantitation.py:244, 429-434
StGenerateFdr ==
    /\ stpc = "fdr_table"
    /\ st_log' = Append(st_log, "fdr_table")
    /\ stpc' = next_stage("fdr_table")
    /\ st_fdr_cols' = {col(ACCESSIONS_COL), col(NUM_SPECTRA_COL),
                      col(SUM_ERR_RECIPROCAL_COL), col(PROT_SPECTRAL_WEIGHT_COL)}
    /\ UNCHANGED <<st_peptide_cols, st_protein_cols, st_factor, st_written>>
    /\ UNCHANGED <<st_ratio, st_summary_cols, st_fdr_ok>>
    /\ UNCHANGED <<mergeVars, fdrVars, cfgVars, quantVars, normVars, poolVars, strVars, tabVars, redVars, grpVars, nmVars>>

\* quantitation.py:246, 380-384
StUpdatePeptide ==
    /\ stpc = "peptide_update"
    /\ st_log' = Append(st_log, "peptide_update")
    /\ stpc' = next_stage("peptide_update")
    /\ st_peptide_cols' = st_peptide_cols \cup {col(NORM_WEIGHT_COL), col(WX_COL)}
    /\ UNCHANGED <<st_fdr_cols, st_protein_cols, st_factor, st_written>>
    /\ UNCHANGED <<st_ratio, st_summary_cols, st_fdr_ok>>
    /\ UNCHANGED <<mergeVars, fdrVars, cfgVars, quantVars, normVars, poolVars, strVars, tabVars, redVars, grpVars, nmVars>>

\* quantitation.py:248, 456-465
StSetupProtein ==
    /\ stpc = "protein_init"
    /\ st_log' = Append(st_log, "protein_init")
    /\ stpc' = next_stage("protein_init")
    /\ st_protein_cols' = st_fdr_cols \cup {col(SUM_WX_COL), col(SUM_NORM_WEIGHT_COL),
                                         col(WEIGHTED_AVG_COL), col(EXP_WEIGHTED_AVG_COL)}
    /\ UNCHANGED <<st_peptide_cols, st_fdr_cols, st_factor, st_written>>
    /\ UNCHANGED <<st_ratio, st_summary_cols, st_fdr_ok>>
    /\ UNCHANGED <<mergeVars, fdrVars, cfgVars, quantVars, normVars, poolVars, strVars, tabVars, redVars, grpVars, nmVars>>

\* quantitation.py:249, 482-487: the normalization factor
StUpdateProtein ==
    /\ stpc = "factor"
    /\ st_log' = Append(st_log, "factor")
    /\ stpc' = next_stage("factor")
    /\ st_protein_cols' = st_protein_cols \cup {col(NORM_PROTEIN_RATIO_COL)}
    /\ st_factor' = TRUE
    /\ UNCHANGED <<st_peptide_cols, st_fdr_cols, st_written>>
    /\ UNCHANGED <<st_ratio, st_summary_cols, st_fdr_ok>>
    /\ UNCHANGED <<mergeVars, fdrVars, cfgVars, quantVars, normVars, poolVars, strVars, tabVars, redVars, grpVars, nmVars>>

\* quantitation.py:251, 403-412
StFinalizePeptide ==
    /\ stpc = "peptide_finalize"
    /\ st_log' = Append(st_log, "peptide_finalize")
    /\ stpc' = next_stage("peptide_finalize")
    /\ st_peptide_cols' = st_peptide_cols
          \cup {normalized_col(st_ratio), ln_normalized_col(st_ratio), col(NEW_LN_RATIO_COL)}
    /\ UNCHANGED <<st_fdr_cols, st_protein_cols, st_factor, st_written>>
    /\ UNCHANGED <<st_ratio, st_summary_cols, st_fdr_ok>>
    /\ UNCHANGED <<mergeVars, fdrVars, cfgVars, quantVars, normVars, poolVars, strVars, tabVars, redVars, grpVars, nmVars>>

\* quantitation.py:253, 505-525
StFinalizeProtein ==
    /\ stpc = "protein_finalize"
    /\ st_log' = Append(st_log, "protein_finalize")
    /\ stpc' = next_stage("protein_finalize")
    /\ st_protein_cols' = st_protein_cols
          \cup {col(ST_DEV_COL), col(T_VALUE_UP_COL), col(P_VALUE_UP_COL),
                col(T_VALUE_DOWN_COL), col(P_VALUE_DOWN_COL)}
    /\ UNCHANGED <<st_peptide_cols, st_fdr_cols, st_factor, st_written>>
    /\ UNCHANGED <<st_ratio, st_summary_cols, st_fdr_ok>>
    /\ UNCHANGED <<mergeVars, fdrVars, cfgVars, quantVars, normVars, poolVars, strVars, tabVars, redVars, grpVars, nmVars>>

\* quantitation.py:255-260
StWrite ==
    /\ stpc = "write"
    /\ st_log' = Append(st_log, "write")
    /\ stpc' = next_stage("write")
    /\ st_written' = TRUE
    /\ UNCHANGED <<st_peptide_cols, st_fdr_cols, st_protein_cols, st_factor>>
    /\ UNCHANGED <<st_ratio, st_summary_cols, st_fdr_ok>>
    /\ UNCHANGED <<mergeVars, fdrVars, cfgVars, quantVars, normVars, poolVars, strVars, tabVars, redVars, grpVars, nmVars>>

InitStg ==
    /\ st_ratio \in StageRatios
    /\ st_summary_cols \in SUBSET SummaryColumns
    /\ st_fdr_ok \in BOOLEAN
    /\ st_peptide_cols = {}
    /\ st_fdr_cols = {}
    /\ st_protein_cols = {}
    /\ st_factor = FALSE
    /\ st_log = <<>>
    /\ st_written = FALSE
    /\ stpc = "read"
    /\ dir = <<>>
    /\ mpc = "off"
    /\ InitMergeIdle
    /\ InitFdrIdle
    /\ InitCfgIdle
    /\ InitQuantIdle
    /\ InitNormIdle
    /\ InitPoolIdle
    /\ InitStrIdle
    /\ InitTabIdle
    /\ InitRedIdle
    /\ InitGrpIdle
    /\ InitNmIdle

NextStg ==
    \/ StRead
    \/ StFilter
    \/ StSetupPeptide
    \/ StGenerateFdr
    \/ StUpdatePeptide
    \/ StSetupProtein
    \/ StUpdateProtein
    \/ StFinalizePeptide
    \/ StFinalizeProtein
    \/ StWrite

SpecStg == InitStg /\ [][NextStg]_vars

\* the stages executed so far are the first stages of the run, in order
StagesInOrder ==
    /\ Len(st_log) <= Len(Stages)
    /\ \A k \in DOMAIN st_log : st_log[k] = Stages[k]

\* no stage removes a column of one of the three tables
ColumnsKept ==
    /\ st_peptide_cols \subseteq st_peptide_cols'
    /\ st_fdr_cols \subseteq st_fdr_cols'
    /\ st_protein_cols \subseteq st_protein_cols'

\* C23: within one run the stages execute strictly in the order filter,
\* peptide init, FDR table, peptide update, protein init, normalization
\* factor, peptide finalize, protein finalize, write; peptide finalize never
\* runs before the factor has been computed, protein finalize never before
\* peptide finalize, the output is written only after protein finalize, and
\* no stage removes a derived column added by an earlier stage.
C23_StageOrder ==
    /\ [](/\ StagesInOrder
          /\ "peptide_finalize" \in Range(st_log) => st_factor
          /\ "protein_finalize" \in Range(st_log)
                => "peptide_finalize" \in Range(st_log)
          /\ st_written => "protein_finalize" \in Range(st_log))
    /\ [][ColumnsKept]_vars

\* a run that has written its output: every stage ran and the tables hold
\* the derived columns of all stages
C23_Witness ==
    /\ stpc = "done"
    /\ st_written
    /\ st_log = Stages
    /\ {col(NORM_WEIGHT_COL), col(WX_COL), ln_col(st_ratio),
        normalized_col(st_ratio), col(NEW_LN_RATIO_COL)} \subseteq st_peptide_cols
    /\ {col(SUM_WX_COL), col(NORM_PROTEIN_RATIO_COL), col(P_VALUE_DOWN_COL)}
          \subseteq st_protein_cols

\* a run that stopped at the filter because a column is missing
C23_WitnessRaised ==
    /\ stpc = "raised"
    /\ st_log = <<"read">>
    /\ ~st_written

====
